---- MODULE Spec2Model ----
(***************************************************************************)
(* Model of the ingestion / reconciliation engine of the archive viewer:   *)
(*   app/utils.py     extract_tweet_id_from_filename, parse_timestamp      *)
(*   app/services.py  process_and_cache_user_posts  ("sync")               *)
(*   app/models.py    User, Post                                           *)
(*                                                                         *)
(* Python values are modelled as tagged records:                           *)
(*   None / JSON null      [t |-> "null"]                                  *)
(*   str                   [t |-> "str",  s |-> a TLA+ string]             *)
(*   int                   [t |-> "int",  n |-> ...]                       *)
(*   bool                  [t |-> "bool", b |-> ...]                       *)
(*   dict                  [t |-> "obj",  o |-> function from keys]        *)
(*   list                  [t |-> "list", items |-> sequence]              *)
(*   datetime              [t |-> "datetime", ...]                         *)
(* The regular expressions and suffix tests of the code are computed on    *)
(* the characters of the file names.                                       *)
(***************************************************************************)
EXTENDS Integers, Sequences, FiniteSets, TLC

VARIABLES
    fs,      \* the archive root: handle -> directory (exists, files)
    users,   \* committed rows of table user:  handle -> row, or NoRow
    posts,   \* committed rows of table post:  the set of rows (key: id)
    last,    \* what the latest call of process_and_cache_user_posts did,
             \* kept until the archive changes again
    tsIn,    \* input of a stand-alone parse_timestamp evaluation
    tsOut,   \* its result
    fnIn,    \* input of a stand-alone evaluation of the tagger or the grouper
    fnOut,   \* its result
    sweep,   \* the sweep over the author directories that is under way
    procs    \* the calls that run at the same time: trigger -> local state

vars == <<fs, users, posts, last, tsIn, tsOut, fnIn, fnOut, sweep, procs>>

\* what the calls made one at a time leave alone
aside == <<tsIn, tsOut, fnIn, fnOut, sweep, procs>>

----------------------------------------------------------------------------
(* Python values *)

PyNone == [t |-> "null"]
PyStr(s) == [t |-> "str", s |-> s]
PyInt(n) == [t |-> "int", n |-> n]
PyBool(b) == [t |-> "bool", b |-> b]
PyDict(f) == [t |-> "obj", o |-> f]
PyList(q) == [t |-> "list", items |-> q]

EmptyDict == PyDict(<<>>)

\* bool(v)
Truthy(v) ==
    CASE v.t = "null" -> FALSE
      [] v.t = "str" -> v.s # ""
      [] v.t = "int" -> v.n # 0
      [] v.t = "bool" -> v.b
      [] v.t = "obj" -> DOMAIN v.o # {}
      [] v.t = "list" -> v.items # <<>>
      [] OTHER -> TRUE

\* a or b
PyOr(a, b) == IF Truthy(a) THEN a ELSE b

IsDict(v) == v.t = "obj"

\* d.get(k, default) for a dict d
DictGet(d, k, default) == IF k \in DOMAIN d.o THEN d.o[k] ELSE default

\* k in d, for a dict d
HasKey(d, k) == k \in DOMAIN d.o

----------------------------------------------------------------------------
(* Characters and file names.  A str is a TLA+ string, that is a sequence  *)
(* of characters; Char(s, i) is its i-th character as a string.            *)

Char(s, i) == SubSeq(s, i, i)

DigitChars == <<"0", "1", "2", "3", "4", "5", "6", "7", "8", "9">>

\* \d
IsDigit(c) == \E i \in 1..10 : DigitChars[i] = c

DigitVal(c) == (CHOOSE i \in 1..10 : DigitChars[i] = c) - 1

\* s.endswith(suf)
EndsWith(s, suf) ==
    /\ Len(s) >= Len(suf)
    /\ SubSeq(s, Len(s) - Len(suf) + 1, Len(s)) = suf

\* length of the run of digits of s that starts at position i, at most cap
RECURSIVE RunFrom(_, _, _)
RunFrom(s, i, cap) ==
    IF cap = 0 \/ i > Len(s) \/ ~IsDigit(Char(s, i)) THEN 0
    ELSE 1 + RunFrom(s, i + 1, cap - 1)

\* a search for the first run of digits anywhere in the name
extract_tweet_id_from_filename_AnyRun(filename) ==
    LET starts == {i \in 1..Len(filename) : IsDigit(Char(filename, i))}
    IN  IF starts = {} THEN PyNone
        ELSE LET i == CHOOSE a \in starts : \A b \in starts : a <= b
             IN  PyStr(SubSeq(filename, i, i + RunFrom(filename, i, Len(filename)) - 1))

\* a match of one digit instead of the whole run
extract_tweet_id_from_filename_OneDigit(filename) ==
    IF RunFrom(filename, 1, 1) = 0 THEN PyNone ELSE PyStr(SubSeq(filename, 1, 1))

\* re.match(r'^(\d+)', filename): the leading digits, None without one
extract_tweet_id_from_filename(filename) ==
    LET n == RunFrom(filename, 1, Len(filename))
    IN  IF n = 0 THEN PyNone ELSE PyStr(SubSeq(filename, 1, n))

\* os.path.splitext(filename)[0]: the name up to its last dot; leading dots
\* do not start an extension
Splitext0(filename) ==
    LET dots == {i \in 1..Len(filename) :
                    /\ Char(filename, i) = "."
                    /\ \E j \in 1..(i - 1) : Char(filename, j) # "."}
    IN  IF dots = {} THEN filename
        ELSE LET i == CHOOSE d \in dots : \A e \in dots : e <= d
             IN  SubSeq(filename, 1, i - 1)

EpochMinDigits == 9
EpochMaxDigits == 11

\* re.search(r'(\d{9,11})', root): the leftmost run of 9 digits, extended
\* greedily to at most 11; None when there is none
SearchEpochDigits(root) ==
    LET starts == {i \in 1..Len(root) :
                      RunFrom(root, i, EpochMinDigits) = EpochMinDigits}
    IN  IF starts = {} THEN PyNone
        ELSE LET i == CHOOSE a \in starts : \A b \in starts : a <= b
             IN  PyStr(SubSeq(root, i, i + RunFrom(root, i, EpochMaxDigits) - 1))

\* int(ts_str) for at most 11 digits, held as <<v \div 10^5, v % 10^5>>: the
\* bounds of the range test exceed a 32-bit integer
RECURSIVE DigitsValue(_)
DigitsValue(ds) ==
    IF ds = "" THEN 0
    ELSE 10 * DigitsValue(SubSeq(ds, 1, Len(ds) - 1)) + DigitVal(Char(ds, Len(ds)))

IntOfDigits(ds) ==
    IF Len(ds) <= 5 THEN <<0, DigitsValue(ds)>>
    ELSE <<DigitsValue(SubSeq(ds, 1, Len(ds) - 5)),
           DigitsValue(SubSeq(ds, Len(ds) - 4, Len(ds)))>>

BigLe(a, b) == a[1] < b[1] \/ (a[1] = b[1] /\ a[2] <= b[2])
BigLt(a, b) == a[1] < b[1] \/ (a[1] = b[1] /\ a[2] < b[2])

EpochFloor == <<9466, 84800>>      \* 946684800
EpochCeiling == <<25246, 8000>>    \* 2524608000

\* a range test that lets the ceiling itself through
EpochInRange_InclusiveCeiling(v) == BigLe(EpochFloor, v) /\ BigLe(v, EpochCeiling)

\* 946684800 <= ts_int < 2524608000
EpochInRange(v) == BigLe(EpochFloor, v) /\ BigLt(v, EpochCeiling)

\* the characters of the model's file names in code point order
CodePointOrder ==
    <<".", "0", "1", "2", "3", "4", "5", "6", "7", "8", "9",
      "G", "J", "P", "\\", "_",
      "a", "b", "e", "g", "j", "m", "n", "o", "p", "s", "t", "x">>

Ord(c) == CHOOSE i \in 1..Len(CodePointOrder) : CodePointOrder[i] = c

\* a < b for str
StrLess(a, b) ==
    \E k \in 1..Len(b) :
        /\ \A i \in 1..(k - 1) : i <= Len(a) /\ Char(a, i) = Char(b, i)
        /\ (k > Len(a) \/ Ord(Char(a, k)) < Ord(Char(b, k)))

\* c.lower()
LowerChar(c) ==
    CASE c = "G" -> "g"
      [] c = "J" -> "j"
      [] c = "P" -> "p"
      [] OTHER -> c

\* s.lower()
RECURSIVE Lower(_)
Lower(s) == IF s = "" THEN "" ELSE LowerChar(Head(s)) \o Lower(Tail(s))

\* s.replace('\\', '/')
RECURSIVE ReplaceBackslash(_)
ReplaceBackslash(s) ==
    IF s = "" THEN ""
    ELSE (IF Head(s) = "\\" THEN "/" ELSE Head(s)) \o ReplaceBackslash(Tail(s))

----------------------------------------------------------------------------
(* Dates *)

\* the strings of the model that datetime.strptime(s, '%Y-%m-%d %H:%M:%S')
\* accepts; it raises ValueError on every other string of the model
ValidDateStrings == {"2020-01-01 10:00:00", "2021-02-03 04:05:06"}

StrptimeOk(s) == s \in ValidDateStrings

Strptime(s) == [t |-> "datetime", from |-> "strptime", text |-> s]

\* datetime.fromtimestamp(secs)
FromTimestamp(secs) == [t |-> "datetime", from |-> "epoch", secs |-> secs]

\* line.strip() on the lines of the model: the padded lines lose their
\* surrounding blanks, every other line of the model has none
Strip(line) ==
    CASE line = " 2021-02-03 04:05:06 " -> "2021-02-03 04:05:06"
      [] line = " hello " -> "hello"
      [] line = " " -> ""
      [] OTHER -> line

\* line.lstrip() and line.rstrip() on the lines of the model
LStrip(line) ==
    CASE line = " 2021-02-03 04:05:06 " -> "2021-02-03 04:05:06 "
      [] line = " hello " -> "hello "
      [] line = " " -> ""
      [] OTHER -> line

RStrip(line) ==
    CASE line = " 2021-02-03 04:05:06 " -> " 2021-02-03 04:05:06"
      [] line = " hello " -> " hello"
      [] line = " " -> ""
      [] OTHER -> line

----------------------------------------------------------------------------
(* Files.  A directory entry is [name, kind, mtime, content]:               *)
(*   kind     "file" or "dir" (os.path.isfile)                              *)
(*   mtime    os.path.getmtime: [ok |-> TRUE, secs |-> ..] or [ok |-> FALSE]*)
(*   content  [io |-> "error"]                        open/read raises      *)
(*            [io |-> "ok", lines |-> .., json |-> ..]                      *)
(*              lines: f.readlines() without the line ends                  *)
(*              json:  json.load(f): [ok |-> FALSE] (JSONDecodeError) or    *)
(*                     [ok |-> TRUE, v |-> value]                           *)

Unreadable == [io |-> "error"]
BadJson == [ok |-> FALSE]
JsonFile(v) == [io |-> "ok", lines |-> <<>>, json |-> [ok |-> TRUE, v |-> v]]
MalformedFile == [io |-> "ok", lines |-> <<"{">>, json |-> BadJson]
TextFile(lines) == [io |-> "ok", lines |-> lines, json |-> BadJson]
BinaryFile == [io |-> "error"]

MTime(hi, lo) == [ok |-> TRUE, secs |-> <<hi, lo>>]
NoMTime == [ok |-> FALSE]

\* the entry of directory listing `dir` (a set of entries) called name
HasEntry(dir, name) == \E f \in dir : f.name = name
Entry(dir, name) == CHOOSE f \in dir : f.name = name

\* open(path) and read: the content, an error when the file is not there
ReadFile(dir, name) ==
    IF HasEntry(dir, name) /\ Entry(dir, name).kind = "file"
    THEN Entry(dir, name).content
    ELSE Unreadable

\* next((f for f in files if f.endswith(suf)), None), as an index (0: None)
FirstWithSuffix(files, suf) ==
    LET hits == {i \in 1..Len(files) : EndsWith(files[i], suf)}
    IN  IF hits = {} THEN 0 ELSE CHOOSE i \in hits : \A j \in hits : i <= j

ExtJson == ".json"
ExtTxt == ".txt"

----------------------------------------------------------------------------
(* app/utils.py: parse_timestamp *)

\* priority 1: the 'date' field of the first .json file of the group
TimestampFromJson(user_folder, files_for_post) ==
    LET i == FirstWithSuffix(files_for_post, ExtJson)
        c == ReadFile(user_folder, files_for_post[i])
        date_str == DictGet(c.json.v, "date", PyNone)
    IN  IF i = 0 THEN PyNone                      \* no .json file
        ELSE IF c.io = "error" THEN PyNone        \* except Exception
        ELSE IF ~c.json.ok THEN PyNone            \* except JSONDecodeError
        ELSE IF ~IsDict(c.json.v) THEN PyNone     \* .get raises: except Exception
        ELSE IF ~Truthy(date_str) THEN PyNone     \* if date_str:
        ELSE IF date_str.t # "str" THEN PyNone    \* strptime raises TypeError
        ELSE IF StrptimeOk(date_str.s) THEN Strptime(date_str.s)
        ELSE PyNone                               \* except ValueError

\* priority 2: the first line of the first .txt file of the group
TimestampFromTxt(user_folder, files_for_post) ==
    LET i == FirstWithSuffix(files_for_post, ExtTxt)
        c == ReadFile(user_folder, files_for_post[i])
        first_line == IF c.lines = <<>> THEN "" ELSE Strip(c.lines[1])
    IN  IF i = 0 THEN PyNone
        ELSE IF c.io = "error" THEN PyNone
        ELSE IF StrptimeOk(first_line) THEN Strptime(first_line)
        ELSE PyNone

\* the match of one file name and whether the range test accepts it
EpochMatch(filename) == SearchEpochDigits(Splitext0(filename))

EpochAccepted(filename) ==
    LET m == EpochMatch(filename)
    IN  m # PyNone /\ EpochInRange(IntOfDigits(m.s))

\* priority 3: the first file name, in group order, whose first run of 9 to
\* 11 digits is in range
TimestampFromName(files_for_post) ==
    LET hits == {i \in 1..Len(files_for_post) : EpochAccepted(files_for_post[i])}
    IN  IF hits = {} THEN PyNone
        ELSE LET i == CHOOSE a \in hits : \A b \in hits : a <= b
             IN  FromTimestamp(IntOfDigits(EpochMatch(files_for_post[i]).s))

\* priority 4: the modification time of the first file of the group
TimestampFromMtime(user_folder, files_for_post) ==
    IF files_for_post = <<>> THEN PyNone
    ELSE IF ~HasEntry(user_folder, files_for_post[1]) THEN PyNone   \* OSError
    ELSE LET m == Entry(user_folder, files_for_post[1]).mtime
         IN  IF m.ok THEN FromTimestamp(m.secs) ELSE PyNone

\* a chain that asks the caption file before the metadata file
parse_timestamp_TxtFirst(post_id, user_folder, files_for_post) ==
    LET t1 == TimestampFromJson(user_folder, files_for_post)
        t2 == TimestampFromTxt(user_folder, files_for_post)
        t3 == TimestampFromName(files_for_post)
        t4 == TimestampFromMtime(user_folder, files_for_post)
    IN  IF t2 # PyNone THEN t2
        ELSE IF t1 # PyNone THEN t1
        ELSE IF t3 # PyNone THEN t3
        ELSE t4

parse_timestamp(post_id, user_folder, files_for_post) ==
    LET t1 == TimestampFromJson(user_folder, files_for_post)
        t2 == TimestampFromTxt(user_folder, files_for_post)
        t3 == TimestampFromName(files_for_post)
        t4 == TimestampFromMtime(user_folder, files_for_post)
    IN  IF t1 # PyNone THEN t1
        ELSE IF t2 # PyNone THEN t2
        ELSE IF t3 # PyNone THEN t3
        ELSE t4

----------------------------------------------------------------------------
(* File names and contents the model draws from *)

RegularFile(name, mtime, content) ==
    [name |-> name, kind |-> "file", mtime |-> mtime, content |-> content]

DateA == "2020-01-01 10:00:00"
DateB == "2021-02-03 04:05:06"

\* the files of one group (post 5) that parse_timestamp is evaluated on
TsJsonName == "5.json"
TsTxtName == "5.txt"

TsJsonContents ==
    { JsonFile(PyDict([date |-> PyStr(DateA)])),
      JsonFile(PyDict([date |-> PyStr("2020-01-01T10:00:00")])),
      JsonFile(PyDict([date |-> PyNone])),
      JsonFile(PyDict([date |-> PyInt(5)])),
      JsonFile(PyDict([full_text |-> PyStr("hi")])),
      JsonFile(PyList(<<>>)),
      MalformedFile,
      Unreadable }

TsTxtContents ==
    { TextFile(<<DateB, "hello">>),
      TextFile(<<" 2021-02-03 04:05:06 ">>),
      TextFile(<<"hello">>),
      TextFile(<<>>),
      Unreadable }

\* names with a run of digits: the floor of the range, the floor - 1, the
\* ceiling - 1, the ceiling, the value 1, a date in range, and 8 digits only
TsEpochNames ==
    { "5_946684800.jpg", "5_946684799.jpg", "5_2524607999.jpg",
      "5_2524608000.jpg", "5_0000000001.jpg", "5_1577836800.jpg",
      "5_12345678.jpg" }

TsCatalog ==
    {RegularFile(TsJsonName, MTime(16000, 1), c) : c \in TsJsonContents}
    \cup {RegularFile(TsTxtName, MTime(16000, 2), c) : c \in TsTxtContents}
    \cup {RegularFile(n, MTime(16000, 3), BinaryFile) : n \in TsEpochNames}
    \cup {RegularFile("5.mp4", NoMTime, BinaryFile)}

\* the largest group parse_timestamp is evaluated on
MaxGroup == 3

Range(q) == {q[i] : i \in DOMAIN q}

TsGroups ==
    UNION {{q \in [1..n -> TsCatalog] :
               \A i, j \in 1..n : i # j => q[i].name # q[j].name} : n \in 1..MaxGroup}

TsInputs ==
    {[dir |-> Range(q), files |-> [i \in DOMAIN q |-> q[i].name]] : q \in TsGroups}

----------------------------------------------------------------------------
(* The store and the archive *)

Handles == {"alice", "bob"}

NoRow == [t |-> "null"]
NoCall == [op |-> "none"]
NotRun == [ran |-> FALSE]

AbsentDir == [exists |-> FALSE, files |-> {}]

StoreIdle ==
    /\ fs = [h \in Handles |-> AbsentDir]
    /\ users = [h \in Handles |-> NoRow]
    /\ posts = {}
    /\ last = NoCall

NoInput == [kind |-> "none"]
NoSweep == [state |-> "idle"]
NoProcs == <<>>

\* no stand-alone evaluation, no sweep and no concurrent call is under way
TsIdle == tsIn = [dir |-> {}, files |-> <<>>] /\ tsOut = NotRun
FnIdle == fnIn = NoInput /\ fnOut = NotRun
SweepIdle == sweep = NoSweep
ProcsIdle == procs = NoProcs

----------------------------------------------------------------------------
(* app/models.py: rows of the two tables *)

\* column of User -> key of the JSON sub-record it is refreshed from
ProfileKey ==
    [name |-> "name", nick |-> "nick", location |-> "location",
     description |-> "description", verified |-> "verified",
     profile_image_url |-> "profile_image",
     favourites_count |-> "favourites_count",
     followers_count |-> "followers_count", friends_count |-> "friends_count",
     listed_count |-> "listed_count", media_count |-> "media_count",
     statuses_count |-> "statuses_count"]

ProfileColumns == DOMAIN ProfileKey

\* User(username=username) after the commit that gives it its id
NewUser(username, id) ==
    [c \in ProfileColumns \cup {"id", "username"} |->
        CASE c = "id" -> PyInt(id)
          [] c = "username" -> PyStr(username)
          [] OTHER -> PyNone]

\* the id the store gives the next inserted user row
NextUserId(rows) == Cardinality({h \in DOMAIN rows : rows[h] # NoRow}) + 1

\* Post.query.filter_by(user_id=...) over the rows `table`
PostsOf(table, user_id) == {p \in table : p.user_id = user_id}

\* a lookup that never finds a row
PostExists_Never(table, tweet_id) == FALSE

\* db.session.get(Post, tweet_id) finds a row
PostExists(table, tweet_id) == \E p \in table : p.id = tweet_id

\* the rows of the author called h, none when the author has no row
PostsOfHandle(rows, table, h) ==
    IF rows[h] = NoRow THEN {} ELSE PostsOf(table, rows[h].id.n)

\* the state of an author as the controller sees it at the start of a call
AuthorState(rows, table, h) ==
    IF rows[h] = NoRow THEN "Unknown"
    ELSE IF PostsOfHandle(rows, table, h) = {} THEN "Empty"
    ELSE "Populated"

\* json.dumps(v)
JsonDumps(v) == [t |-> "json", of |-> v]

----------------------------------------------------------------------------
(* app/services.py: the profile refresh *)

\* the .json names of os.listdir(user_folder_path)
JsonFilesInFolder(dir) == {f.name : f \in {e \in dir : EndsWith(e.name, ExtJson)}}

\* what one candidate file gives: "error" (an exception, caught and logged),
\* "nomatch" (the condition of line 53 is false) or "match"
CandidateOutcome(dir, json_file_name, username) ==
    LET c == ReadFile(dir, json_file_name)
        data == c.json.v
        author == DictGet(data, "author", PyNone)
        user == DictGet(data, "user", PyNone)
        user_info == PyOr(author, user)
        who == PyStr(username)
        author_or_empty == DictGet(data, "author", EmptyDict)
        user_or_empty == DictGet(data, "user", EmptyDict)
    IN  IF c.io = "error" \/ ~c.json.ok THEN "error"
        ELSE IF ~IsDict(data) THEN "error"
        ELSE IF ~Truthy(user_info) THEN "nomatch"
        ELSE IF ~IsDict(user_info) THEN "error"
        ELSE IF DictGet(user_info, "nick", PyNone) = who THEN "match"
        ELSE IF DictGet(user_info, "name", PyNone) = who THEN "match"
        ELSE IF ~IsDict(author_or_empty) THEN "error"
        ELSE IF DictGet(author_or_empty, "nick", PyNone) = who THEN "match"
        ELSE IF ~IsDict(user_or_empty) THEN "error"
        ELSE IF DictGet(user_or_empty, "nick", PyNone) = who THEN "match"
        ELSE "nomatch"

\* user_info of a candidate: data.get('author') or data.get('user')
CandidateUserInfo(dir, json_file_name) ==
    LET data == ReadFile(dir, json_file_name).json.v
    IN  PyOr(DictGet(data, "author", PyNone), DictGet(data, "user", PyNone))

\* user_json_data: the sub-record of the first matching candidate of
\* sorted(json_files_in_folder, reverse=True), {} when none matches
SelectUserJson(dir, username) ==
    LET hits == {n \in JsonFilesInFolder(dir) :
                    CandidateOutcome(dir, n, username) = "match"}
    IN  IF hits = {} THEN EmptyDict
        ELSE CandidateUserInfo(dir,
                 CHOOSE n \in hits : \A m \in hits : m = n \/ StrLess(m, n))

\* db_user.<column> = user_json_data.get(<key>, db_user.<column>), 12 times
MergeProfile(db_user, user_json_data) ==
    [c \in DOMAIN db_user |->
        IF c \in ProfileColumns
        THEN DictGet(user_json_data, ProfileKey[c], db_user[c])
        ELSE db_user[c]]

----------------------------------------------------------------------------
(* app/services.py: the scan *)

\* MEDIA_EXTENSIONS: IMAGE_EXTENSIONS + VIDEO_EXTENSIONS
MediaExtensions == {".jpg", ".jpeg", ".png", ".gif", ".webp", ".mp4"}

IsMedia(filename) == \E e \in MediaExtensions : EndsWith(Lower(filename), e)

\* os.path.join(username, filename).replace('\\', '/') on a host whose
\* os.sep is sep
MediaPathOn(sep, username, filename) ==
    ReplaceBackslash(username \o sep \o filename)

\* the same on a POSIX host
MediaPath(username, filename) == MediaPathOn("/", username, filename)

\* a grouping that does not ask whether an entry is a regular file
Grouped_NoFileTest(listing) ==
    LET Keep(e) == extract_tweet_id_from_filename(e.name) # PyNone
    IN  SelectSeq(listing, Keep)

\* the entries of a listing that go into files_by_tweet_id: regular files
\* whose name has a tweet id
Grouped(listing) ==
    LET Keep(e) == e.kind = "file" /\ extract_tweet_id_from_filename(e.name) # PyNone
    IN  SelectSeq(listing, Keep)

IdOf(e) == extract_tweet_id_from_filename(e.name).s

\* a grouping that keeps the first key only
GroupIds_FirstOnly(listing) ==
    LET g == Grouped(listing)
    IN  IF g = <<>> THEN {} ELSE {IdOf(g[1])}

\* the keys of files_by_tweet_id, in the order they were first inserted
GroupIds(listing) ==
    LET g == Grouped(listing)
        First(i) == \A j \in 1..(i - 1) : IdOf(g[j]) # IdOf(g[i])
        idx == {i \in 1..Len(g) : First(i)}
    IN  {IdOf(g[i]) : i \in idx}

\* files_by_tweet_id[tweet_id]: the names of the group, in listing order
GroupFiles(listing, tweet_id) ==
    LET Mine(e) == IdOf(e) = tweet_id
        g == SelectSeq(Grouped(listing), Mine)
    IN  [i \in 1..Len(g) |-> g[i].name]

\* files_by_tweet_id after the loop of lines 100-106
FilesByTweetId(listing) ==
    [tweet_id \in GroupIds(listing) |-> GroupFiles(listing, tweet_id)]

\* "".join(lines).strip() for lines given without their line ends
RECURSIVE JoinLines(_)
JoinLines(lines) ==
    IF lines = <<>> THEN ""
    ELSE IF Len(lines) = 1 THEN lines[1]
    ELSE lines[1] \o "\n" \o JoinLines(Tail(lines))

RECURSIVE DropBlankHead(_)
DropBlankHead(lines) ==
    IF lines # <<>> /\ Strip(lines[1]) = "" THEN DropBlankHead(Tail(lines))
    ELSE lines

RECURSIVE DropBlankTail(_)
DropBlankTail(lines) ==
    IF lines # <<>> /\ Strip(lines[Len(lines)]) = ""
    THEN DropBlankTail(SubSeq(lines, 1, Len(lines) - 1))
    ELSE lines

JoinStrip(lines) ==
    LET body == DropBlankTail(DropBlankHead(lines))
        n == Len(body)
    IN  IF n = 0 THEN ""
        ELSE IF n = 1 THEN Strip(body[1])
        ELSE JoinLines([i \in 1..n |->
                 IF i = 1 THEN LStrip(body[1])
                 ELSE IF i = n THEN RStrip(body[n])
                 ELSE body[i]])

\* the fields the metadata file of the group gives (lines 133-152)
JsonFields(dir, associated_files) ==
    LET i == FirstWithSuffix(associated_files, ExtJson)
        c == ReadFile(dir, associated_files[i])
        json_data == c.json.v
        nothing == [raw |-> PyNone, retweet |-> PyNone, favorite |-> PyNone,
                    reply |-> PyNone, bookmark |-> PyNone, text |-> PyNone]
    IN  IF i = 0 \/ ~HasEntry(dir, associated_files[i]) THEN nothing
        ELSE IF c.io = "error" \/ ~c.json.ok THEN nothing
        ELSE IF ~IsDict(json_data)
             THEN [nothing EXCEPT !.raw = JsonDumps(json_data)]
        ELSE [raw |-> JsonDumps(json_data),
              retweet |-> DictGet(json_data, "retweet_count", PyNone),
              favorite |-> DictGet(json_data, "favorite_count", PyNone),
              reply |-> DictGet(json_data, "reply_count", PyNone),
              bookmark |-> DictGet(json_data, "bookmark_count", PyNone),
              text |-> IF \/ HasKey(json_data, "full_text")
                          \/ HasKey(json_data, "content")
                          \/ HasKey(json_data, "text")
                       THEN PyOr(DictGet(json_data, "full_text", PyNone),
                                 PyOr(DictGet(json_data, "content", PyNone),
                                      DictGet(json_data, "text", PyNone)))
                       ELSE PyNone]

\* a caption file that replaces the text of the metadata file
TextContent_CaptionWins(dir, associated_files, json_text) ==
    LET i == FirstWithSuffix(associated_files, ExtTxt)
        c == ReadFile(dir, associated_files[i])
    IN  IF i = 0 THEN json_text
        ELSE IF c.io = "error" THEN json_text
        ELSE IF c.lines = <<>> THEN json_text
        ELSE IF StrptimeOk(Strip(c.lines[1]))
             THEN PyStr(JoinStrip(Tail(c.lines)))
        ELSE PyStr(JoinStrip(c.lines))

\* text_content after the caption file was looked at (lines 154-171)
TextContent(dir, associated_files, json_text) ==
    LET i == FirstWithSuffix(associated_files, ExtTxt)
        c == ReadFile(dir, associated_files[i])
    IN  IF i = 0 THEN json_text
        ELSE IF c.io = "error" THEN json_text
        ELSE IF c.lines = <<>> THEN json_text
        ELSE IF Truthy(json_text) THEN json_text
        ELSE IF StrptimeOk(Strip(c.lines[1]))
             THEN PyStr(JoinStrip(Tail(c.lines)))
        ELSE PyStr(JoinStrip(c.lines))

\* a media list without its first entry
MediaFilesOn_DropsFirst(sep, username, associated_files) ==
    LET IsM(f) == IsMedia(f)
        m == SelectSeq(associated_files, IsM)
    IN  [i \in 1..(Len(m) - 1) |-> MediaPathOn(sep, username, m[i + 1])]

\* temp_post_data['media_files'] (lines 173-175) on a host whose os.sep is
\* sep
MediaFilesOn(sep, username, associated_files) ==
    LET IsM(f) == IsMedia(f)
        m == SelectSeq(associated_files, IsM)
    IN  [i \in 1..Len(m) |-> MediaPathOn(sep, username, m[i])]

\* the same on a POSIX host
MediaFiles(username, associated_files) ==
    MediaFilesOn("/", username, associated_files)

\* Post(...) built from one group (lines 120-190)
ExtractPost(username, user_id, dir, tweet_id, associated_files) ==
    LET j == JsonFields(dir, associated_files)
    IN  [id |-> tweet_id,
         user_id |-> user_id,
         timestamp |-> parse_timestamp(tweet_id, dir, associated_files),
         text_content |-> TextContent(dir, associated_files, j.text),
         media_files_json |-> JsonDumps(PyList(MediaFiles(username, associated_files))),
         retweet_count |-> j.retweet,
         reply_count |-> j.reply,
         favorite_count |-> j.favorite,
         bookmark_count |-> j.bookmark,
         raw_json_data_text |-> j.raw]

\* a scan that gives up a group whose metadata file does not parse
ScannedPosts_SkipsBroken(username, user_id, dir, listing) ==
    {ExtractPost(username, user_id, dir, id, GroupFiles(listing, id)) :
        id \in {g \in GroupIds(listing) :
                   JsonFields(dir, GroupFiles(listing, g)).raw # PyNone}}

\* the posts lines 120-190 build from the groups of a listing, whatever the
\* store holds
ScannedPosts(username, user_id, dir, listing) ==
    {ExtractPost(username, user_id, dir, id, GroupFiles(listing, id)) :
        id \in GroupIds(listing)}

----------------------------------------------------------------------------
(* The entries the archive may hold *)

\* the most entries one directory holds
MaxFiles == 2


AliceFull ==
    PyDict([date |-> PyStr(DateA), full_text |-> PyStr("hi"),
            retweet_count |-> PyInt(1),
            author |-> PyDict([nick |-> PyStr("alice"), name |-> PyStr("Alice A"),
                               followers_count |-> PyInt(100)])])

AliceSparse ==
    PyDict([author |-> PyDict([nick |-> PyStr("alice"),
                               followers_count |-> PyNone,
                               location |-> PyStr("Paris")])])

\* the entries the directory of each handle may hold
Catalog(h) ==
    IF h = "alice"
    THEN { RegularFile("111_a.json", MTime(16000, 1), JsonFile(AliceFull)),
           RegularFile("111_a.jpg", MTime(16000, 2), BinaryFile),
           RegularFile("222_b.json", MTime(16000, 3), JsonFile(AliceSparse)) }
    ELSE { RegularFile("111_b.jpg", MTime(16000, 4), BinaryFile) }

\* what a directory of handle h may hold
Dirs(h) == {D \in SUBSET Catalog(h) :
               /\ Cardinality(D) <= MaxFiles
               /\ \A e, f \in D : e.name = f.name => e = f}

Orderings(S) == {q \in [1..Cardinality(S) -> S] : Range(q) = S}

\* ScannedPosts and SelectUserJson, evaluated once for every listing of the
\* model instead of at every step
ScanTable ==
    {[h |-> h, user_id |-> i, listing |-> q,
      posts |-> ScannedPosts(h, i, Range(q), q)] :
        <<h, i, q>> \in UNION {{<<h, i, q>> :
                                  i \in 1..Cardinality(Handles),
                                  q \in UNION {Orderings(D) : D \in Dirs(h)}} :
                                h \in Handles}}

ProfileTable ==
    {[h |-> h, dir |-> D, user_json_data |-> SelectUserJson(D, h)] :
        <<h, D>> \in UNION {{<<h, D>> : D \in Dirs(h)} : h \in Handles}}

ScannedPostsOf(username, user_id, listing) ==
    LET hit == {r \in ScanTable :
                   r.h = username /\ r.user_id = user_id /\ r.listing = listing}
    IN  IF hit = {} THEN ScannedPosts(username, user_id, Range(listing), listing)
        ELSE (CHOOSE r \in hit : TRUE).posts

UserJsonOf(dir, username) ==
    LET hit == {r \in ProfileTable : r.h = username /\ r.dir = dir}
    IN  IF hit = {} THEN SelectUserJson(dir, username)
        ELSE (CHOOSE r \in hit : TRUE).user_json_data

\* a loop that looks for the identifier among the posts of the author only
NewPosts_OwnOnly(username, user_id, listing, table) ==
    {p \in ScannedPostsOf(username, user_id, listing) :
        ~PostExists(PostsOf(table, user_id), p.id)}

\* the posts the loop of lines 115-192 adds to the session: one for each
\* group whose id db.session.get(Post, tweet_id) does not find
NewPosts(username, user_id, listing, table) ==
    {p \in ScannedPostsOf(username, user_id, listing) : ~PostExists(table, p.id)}

----------------------------------------------------------------------------
(* app/services.py: process_and_cache_user_posts(username, force_rescan)   *)
(*                                                                         *)
(* One call is one step.  What the environment decides during the call is  *)
(* an input of the step: whether each commit it reaches raises, whether    *)
(* each os.listdir it reaches raises, and the order in which os.listdir    *)
(* returns the entries.  An exception that leaves the function ends the    *)
(* call "raised"; the store keeps what was committed before it.            *)

Ids(rows) == {p.id : p \in rows}

\* the record of a call: its arguments, the state of the author when it
\* started, whether it repeats a call of the same author that was not forced
\* either and met no fault, whether it repeats such a call whose scan was cut
\* short or whose insertion was rolled back, how it ended, the counts it returned, the faults
\* it met, how far the scan got, and the ids whose rows its commits deleted
\* and inserted
CallRecord(username, force_rescan, outcome, added, deleted, fired, scan, purged, inserted) ==
    [op |-> "sync", h |-> username, force |-> force_rescan,
     state |-> AuthorState(users, posts, username),
     again |-> /\ last.op = "sync"
               /\ last.h = username
               /\ ~last.force /\ ~force_rescan
               /\ last.outcome = "returned"
               /\ last.fired = {},
     retry |-> /\ last.op = "sync"
               /\ last.h = username
               /\ ~last.force /\ ~force_rescan
               /\ ("insert" \in last.fired \/ last.scan = "failed"),
     outcome |-> outcome, added |-> added, deleted |-> deleted,
     fired |-> fired, scan |-> scan, purged |-> purged, inserted |-> inserted]

\* a test that takes every path for a directory
IsDir_Always(username) == TRUE

\* line 25: os.path.isdir(user_folder_path)
IsDir(username) == fs[username].exists

\* a row of another handle for an author that has none
WithUser_WrongHandle(rows, username) ==
    IF rows[username] = NoRow
    THEN [rows EXCEPT ![username] = NewUser("", NextUserId(rows))]
    ELSE rows

\* lines 29-34: the row of the author, created when there is none
WithUser(rows, username) ==
    IF rows[username] = NoRow
    THEN [rows EXCEPT ![username] = NewUser(username, NextUserId(rows))]
    ELSE rows

\* a profile refresh that stays in the store when its commit fails
Refreshed_KeepsOnFailure(rows, dir, username, commit_fails) ==
    [rows EXCEPT ![username] =
        MergeProfile(rows[username], UserJsonOf(dir, username))]

\* lines 36-81: the rows after the profile refresh and its commit
Refreshed(rows, dir, username, commit_fails) ==
    IF commit_fails THEN rows      \* db.session.rollback()
    ELSE [rows EXCEPT ![username] =
             MergeProfile(rows[username], UserJsonOf(dir, username))]

\* a forced call that deletes one post of the author
PostsAfterDelete_One(table, user_id, force_rescan) ==
    IF force_rescan /\ PostsOf(table, user_id) # {}
    THEN table \ {CHOOSE p \in PostsOf(table, user_id) : TRUE}
    ELSE table

\* a forced call that deletes the posts of every author
PostsAfterDelete_All(table, user_id, force_rescan) ==
    IF force_rescan THEN {} ELSE table

\* a forced call that deletes nothing
PostsAfterDelete_KeepAll(table, user_id, force_rescan) == table

\* lines 85-90: the rows of table post after the delete of a forced call
PostsAfterDelete(table, user_id, force_rescan) ==
    IF force_rescan THEN table \ PostsOf(table, user_id) ELSE table

\* a call that returns early for every author that has a row
MustSkip_WhenKnown(rows, table, username, force_rescan) ==
    ~force_rescan /\ rows[username] # NoRow

\* a call that never takes the early return
MustSkip_Never(rows, table, username, force_rescan) == FALSE

\* lines 91-94: the call is not forced and db_user.posts is not empty
MustSkip(rows, table, username, force_rescan) ==
    ~force_rescan /\ PostsOfHandle(rows, table, username) # {}

Flag(b, name) == IF b THEN {name} ELSE {}

\* lines 25-27: no directory
SyncNoDir(username, force_rescan) ==
    /\ ~IsDir(username)
    /\ UNCHANGED <<fs, users, posts>>
    /\ last' = CallRecord(username, force_rescan, "returned", 0, 0,
                          {}, "none", {}, {})

\* line 33 raises: the commit of the new author fails
SyncCreateRaises(username, force_rescan) ==
    /\ IsDir(username)
    /\ users[username] = NoRow
    /\ UNCHANGED <<fs, users, posts>>
    /\ last' = CallRecord(username, force_rescan, "raised", 0, 0,
                          {"create"}, "none", {}, {})

\* line 38 raises: os.listdir fails outside any try
SyncListRaises(username, force_rescan) ==
    /\ IsDir(username)
    /\ users' = WithUser(users, username)
    /\ UNCHANGED <<fs, posts>>
    /\ last' = CallRecord(username, force_rescan, "raised", 0, 0,
                          {"listdir"}, "none", {}, {})

\* line 88 raises: the commit of the bulk delete fails, nothing is deleted
SyncDeleteRaises(username, profile_fails) ==
    /\ IsDir(username)
    /\ users' = Refreshed(WithUser(users, username), fs[username].files,
                          username, profile_fails)
    /\ UNCHANGED <<fs, posts>>
    /\ last' = CallRecord(username, TRUE, "raised", 0, 0,
                          Flag(profile_fails, "profile") \cup {"delete"},
                          "none", {}, {})

\* an early return that deletes the posts of the author
SyncSkip_Purges(username, profile_fails) ==
    /\ IsDir(username)
    /\ MustSkip(users, posts, username, FALSE)
    /\ users' = Refreshed(users, fs[username].files, username, profile_fails)
    /\ posts' = posts \ PostsOfHandle(users, posts, username)
    /\ UNCHANGED fs
    /\ last' = CallRecord(username, FALSE, "returned", 0, 0,
                          Flag(profile_fails, "profile"), "none", {}, {})

\* an early return that leaves the profile as it is
SyncSkip_NoRefresh(username, profile_fails) ==
    /\ IsDir(username)
    /\ MustSkip(users, posts, username, FALSE)
    /\ UNCHANGED <<fs, users, posts>>
    /\ last' = CallRecord(username, FALSE, "returned", 0, 0,
                          Flag(profile_fails, "profile"), "none", {}, {})

\* an early return that reports the stored posts as added
SyncSkip_ReturnsCount(username, profile_fails) ==
    /\ IsDir(username)
    /\ MustSkip(users, posts, username, FALSE)
    /\ users' = Refreshed(users, fs[username].files, username, profile_fails)
    /\ UNCHANGED <<fs, posts>>
    /\ last' = CallRecord(username, FALSE, "returned",
                          Cardinality(PostsOfHandle(users, posts, username)), 0,
                          Flag(profile_fails, "profile"), "none", {}, {})

\* lines 92-94: not forced and the author has posts
SyncSkip(username, profile_fails) ==
    /\ IsDir(username)
    /\ MustSkip(users, posts, username, FALSE)
    /\ users' = Refreshed(users, fs[username].files, username, profile_fails)
    /\ UNCHANGED <<fs, posts>>
    /\ last' = CallRecord(username, FALSE, "returned", 0, 0,
                          Flag(profile_fails, "profile"), "none", {}, {})

\* a commit that stores one of the new posts when it fails
Committed_Partial(posts1, fresh, insert_fails) ==
    IF insert_fails /\ fresh # {}
    THEN posts1 \cup {CHOOSE p \in fresh : TRUE}
    ELSE posts1 \cup fresh

\* lines 194-199: the rows of table post after the one commit of the scan,
\* which stores every added post or, rolled back, none
Committed(posts1, fresh, insert_fails) ==
    IF insert_fails THEN posts1 ELSE posts1 \cup fresh

\* a scan whose failure also undoes the delete of the forced call
SyncScan_Restores(username, force_rescan, profile_fails, scan_list_fails, listing, insert_fails) ==
    LET users1 == WithUser(users, username)
        user_id == users1[username].id.n
        posts1 == PostsAfterDelete(posts, user_id, force_rescan)
        posts_deleted == Cardinality(posts \ posts1)
        fresh == NewPosts(username, user_id, listing, posts1)
        fired == Flag(profile_fails, "profile")
    IN  /\ IsDir(username)
        /\ ~MustSkip(users, posts, username, force_rescan)
        /\ users' = Refreshed(users1, fs[username].files, username, profile_fails)
        /\ UNCHANGED fs
        /\ IF scan_list_fails
           THEN /\ posts' = posts
                /\ last' = CallRecord(username, force_rescan, "returned", 0,
                                      posts_deleted, fired \cup {"listdir"},
                                      "failed", {}, {})
           ELSE /\ posts' = IF insert_fails THEN posts ELSE posts1 \cup fresh
                /\ last' = CallRecord(username, force_rescan, "returned",
                                      Cardinality(fresh), posts_deleted,
                                      fired \cup Flag(insert_fails, "insert"),
                                      "done",
                                      IF insert_fails THEN {} ELSE Ids(posts \ posts1),
                                      IF insert_fails THEN {} ELSE Ids(fresh))

\* lines 96-201: the scan, after the delete of a forced call
SyncScan(username, force_rescan, profile_fails, scan_list_fails, listing, insert_fails) ==
    LET users1 == WithUser(users, username)
        user_id == users1[username].id.n
        posts1 == PostsAfterDelete(posts, user_id, force_rescan)
        posts_deleted == Cardinality(posts \ posts1)
        fresh == NewPosts(username, user_id, listing, posts1)
        fired == Flag(profile_fails, "profile")
    IN  /\ IsDir(username)
        /\ ~MustSkip(users, posts, username, force_rescan)
        /\ users' = Refreshed(users1, fs[username].files, username, profile_fails)
        /\ UNCHANGED fs
        /\ IF scan_list_fails
           THEN \* lines 107-109
                /\ posts' = posts1
                /\ last' = CallRecord(username, force_rescan, "returned", 0,
                                      posts_deleted, fired \cup {"listdir"},
                                      "failed", Ids(posts \ posts1), {})
           ELSE /\ posts' = Committed(posts1, fresh, insert_fails)
                /\ last' = CallRecord(username, force_rescan, "returned",
                                      Cardinality(fresh), posts_deleted,
                                      fired \cup Flag(insert_fails, "insert"),
                                      "done", Ids(posts \ posts1),
                                      IF insert_fails THEN {} ELSE Ids(fresh))

process_and_cache_user_posts(username, force_rescan) ==
    \/ SyncNoDir(username, force_rescan)
    \/ SyncCreateRaises(username, force_rescan)
    \/ SyncListRaises(username, force_rescan)
    \/ \E profile_fails \in BOOLEAN :
          \/ force_rescan /\ SyncDeleteRaises(username, profile_fails)
          \/ ~force_rescan /\ SyncSkip(username, profile_fails)
          \/ SyncScan(username, force_rescan, profile_fails, TRUE, <<>>, FALSE)
          \/ \E listing \in Orderings(fs[username].files), insert_fails \in BOOLEAN :
                SyncScan(username, force_rescan, profile_fails, FALSE, listing,
                         insert_fails)

Sync ==
    \E username \in Handles, force_rescan \in BOOLEAN :
        /\ process_and_cache_user_posts(username, force_rescan)
        /\ UNCHANGED aside

----------------------------------------------------------------------------
(* The archive changes under the downloader and the administrator *)

MakeDir(h) ==
    /\ ~fs[h].exists
    /\ fs' = [fs EXCEPT ![h] = [exists |-> TRUE, files |-> {}]]
    /\ last' = NoCall
    /\ UNCHANGED <<users, posts, aside>>

\* the directory is removed with what it holds
RemoveDir(h) ==
    /\ fs[h].exists
    /\ fs' = [fs EXCEPT ![h] = AbsentDir]
    /\ last' = NoCall
    /\ UNCHANGED <<users, posts, aside>>

PutFile(h, f) ==
    /\ fs[h].exists
    /\ \A e \in fs[h].files : e.name # f.name
    /\ Cardinality(fs[h].files) < MaxFiles
    /\ fs' = [fs EXCEPT ![h].files = @ \cup {f}]
    /\ last' = NoCall
    /\ UNCHANGED <<users, posts, aside>>

DeleteFile(h, f) ==
    /\ f \in fs[h].files
    /\ fs' = [fs EXCEPT ![h].files = @ \ {f}]
    /\ last' = NoCall
    /\ UNCHANGED <<users, posts, aside>>

ArchiveChanges ==
    \E h \in Handles :
        \/ MakeDir(h)
        \/ RemoveDir(h)
        \/ \E f \in Catalog(h) : PutFile(h, f) \/ DeleteFile(h, f)

Init ==
    /\ StoreIdle
    /\ TsIdle /\ FnIdle /\ SweepIdle /\ ProcsIdle

Next == Sync \/ ArchiveChanges

Spec == Init /\ [][Next]_vars

----------------------------------------------------------------------------
(* Properties of process_and_cache_user_posts, under Spec *)

\* the leading run of digits of a name, "" when the name starts with none
LeadingDigits(name) ==
    LET n == CHOOSE k \in 0..Len(name) :
                 /\ \A i \in 1..k : IsDigit(Char(name, i))
                 /\ k = Len(name) \/ ~IsDigit(Char(name, k + 1))
    IN  SubSeq(name, 1, n)

\* the identifiers derivable from the regular files of a directory
DerivableIds(d) ==
    {LeadingDigits(e.name) : e \in {f \in d.files : f.kind = "file"}} \ {""}

\* the step is a call of the controller (every other step resets last)
IsCall == last'.op = "sync"

\* the call of the step returned and met no failing listing or insertion
ScanWentThrough(call) ==
    /\ call.outcome = "returned"
    /\ call.scan = "done"
    /\ "insert" \notin call.fired

\* the identifiers stored for another author than h
HeldByOthers(rows, table, h) ==
    {p.id : p \in {q \in table : q.user_id # rows[h].id.n}}

\* C1: when sync(h, false) follows a sync(h, false) that returned with every
\* commit and listing succeeding, and no file changed in between, it returns
\* (0, 0) and leaves the stored posts as they were, unless its own first
\* listing of the directory raises.
C1_Idempotence ==
    [][ (IsCall /\ last'.again /\ ~(last'.outcome = "raised"))
        => /\ last'.added = 0
           /\ last'.deleted = 0
           /\ posts' = posts ]_vars

\* a repeated call scanned a directory that holds identifiers and added none
C1_Witness ==
    /\ last.op = "sync"
    /\ last.again
    /\ last.outcome = "returned"
    /\ last.scan = "done"
    /\ last.fired = {}
    /\ DerivableIds(fs[last.h]) # {}
    /\ last.added = 0

\* C2 as stated: after sync(h, true) returns, here on an existing directory
\* and without any failing listing or commit, the identifiers stored for h
\* are exactly those derivable from the regular files of the directory of h.
C2_Original ==
    ( /\ last.op = "sync" /\ last.force
      /\ fs[last.h].exists
      /\ last.outcome = "returned"
      /\ last.fired = {} )
    => Ids(PostsOfHandle(users, posts, last.h)) = DerivableIds(fs[last.h])

\* C2 amended: after sync(h, true) returns on an existing directory, its
\* listing and its insertion having succeeded, the identifiers stored for h
\* are exactly those derivable from the regular files of the directory that
\* no other author holds.
C2_FullRebuild ==
    ( /\ last.op = "sync" /\ last.force
      /\ fs[last.h].exists
      /\ ScanWentThrough(last) )
    => Ids(PostsOfHandle(users, posts, last.h))
          = DerivableIds(fs[last.h]) \ HeldByOthers(users, posts, last.h)

\* a rebuild deleted rows, inserted rows and left out an identifier of the
\* directory that another author holds
C2_Witness ==
    /\ last.op = "sync" /\ last.force
    /\ fs[last.h].exists
    /\ ScanWentThrough(last)
    /\ last.purged # {}
    /\ last.inserted # {}
    /\ DerivableIds(fs[last.h]) \cap HeldByOthers(users, posts, last.h) # {}

\* C3: sync(h, false) on an author that has posts adds, changes and deletes
\* no post and does not scan, whatever the directory holds; it returns
\* (0, 0) unless the listing of the profile refresh raises.
C3_PopulatedSkips ==
    [][ (IsCall /\ ~last'.force /\ last'.state = "Populated")
        => /\ posts' = posts
           /\ last'.scan = "none"
           /\ last'.outcome = "returned"
                 => (last'.added = 0 /\ last'.deleted = 0) ]_vars

\* an author with posts was synced, the call returned (0, 0), and the
\* directory holds an identifier that is not stored
C3_Witness ==
    /\ last.op = "sync" /\ ~last.force
    /\ last.state = "Populated"
    /\ last.outcome = "returned"
    /\ last.added = 0 /\ last.deleted = 0
    /\ fs[last.h].exists
    /\ DerivableIds(fs[last.h]) \ Ids(posts) # {}

\* C4: without a directory, sync(h, force_rescan) returns (0, 0) with either
\* flag and changes neither table.
C4_NoDirectory ==
    [][ (IsCall /\ ~fs[last'.h].exists)
        => /\ last'.outcome = "returned"
           /\ last'.added = 0
           /\ last'.deleted = 0
           /\ users' = users
           /\ posts' = posts ]_vars

\* a forced call without a directory returned and the author kept its posts
C4_Witness ==
    /\ last.op = "sync" /\ last.force
    /\ ~fs[last.h].exists
    /\ last.outcome = "returned"
    /\ PostsOfHandle(users, posts, last.h) # {}

\* C5: sync(h, false) on an author without posts scans the directory; when
\* the listing and the insertion succeed it returns (k, 0), k the number of
\* identifiers of the regular files that the store did not hold, and each of
\* them is then a post of h; no other row is added or removed.
C5_IncrementalScan ==
    [][ ( /\ IsCall /\ ~last'.force
          /\ last'.state \in {"Unknown", "Empty"}
          /\ fs[last'.h].exists
          /\ ScanWentThrough(last') )
        => LET new == DerivableIds(fs[last'.h]) \ Ids(posts)
           IN  /\ last'.added = Cardinality(new)
               /\ last'.deleted = 0
               /\ posts \subseteq posts'
               /\ Ids(posts' \ posts) = new
               /\ Cardinality(posts' \ posts) = Cardinality(new)
               /\ \A p \in posts' \ posts :
                     p.user_id = users'[last'.h].id.n ]_vars

\* a metadata file and a media file that share identifier 111 gave (1, 0)
\* and the single post 111 to an author the store did not know
C5_Witness ==
    /\ last.op = "sync" /\ ~last.force
    /\ last.state = "Unknown"
    /\ ScanWentThrough(last)
    /\ {e.name : e \in fs[last.h].files} = {"111_a.json", "111_a.jpg"}
    /\ last.added = 1 /\ last.deleted = 0
    /\ Ids(PostsOfHandle(users, posts, last.h)) = {"111"}

\* C6: sync(h, true) that returns on an existing directory, in any state of
\* the author, reports as deleted the number of posts h had at the start,
\* keeps none of them unless the scan extracted its identifier again, and
\* runs the scan.
C6_ForceDeletes ==
    [][ ( /\ IsCall /\ last'.force
          /\ fs[last'.h].exists
          /\ last'.outcome = "returned" )
        => LET old == PostsOfHandle(users, posts, last'.h)
           IN  /\ last'.deleted = Cardinality(old)
               /\ last'.purged = Ids(old)
               /\ \A p \in old :
                     p \in posts' => p.id \in DerivableIds(fs[last'.h])
               /\ last'.scan # "none" ]_vars

\* a forced call on an author with posts deleted a post whose files are gone
C6_Witness ==
    /\ last.op = "sync" /\ last.force
    /\ last.state = "Populated"
    /\ ScanWentThrough(last)
    /\ last.deleted > 0
    /\ last.purged \ Ids(posts) # {}

\* C7: a step that is not a forced call, a change of the files or a call
\* with force_rescan = false, keeps every stored post with every field as
\* it was, and adds no second row with the identifier of a stored post.
C7_PostImmutable ==
    [][ ~(IsCall /\ last'.force)
        => \A p \in posts :
              /\ p \in posts'
              /\ \A q \in posts' : q.id = p.id => q = p ]_vars

\* after a call with force_rescan = false, an author holds a post that no
\* listing of its present files would give
C7_Witness ==
    /\ last.op = "sync" /\ ~last.force
    /\ last.outcome = "returned"
    /\ fs[last.h].exists
    /\ \E p \in PostsOfHandle(users, posts, last.h) :
          /\ p.id \in DerivableIds(fs[last.h])
          /\ \A q \in Orderings(fs[last.h].files) :
                p \notin ScannedPostsOf(last.h, p.user_id, q)

\* C8 as stated: no call clears a profile column that held a value.
C8_NeverCleared ==
    [][ IsCall
        => \A h \in Handles : \A c \in ProfileColumns :
              (users[h] # NoRow /\ users[h][c] # PyNone)
              => users'[h][c] # PyNone ]_vars

----------------------------------------------------------------------------
(* Stand-alone evaluation of parse_timestamp on one group *)

InitTs ==
    /\ StoreIdle
    /\ tsIn \in TsInputs
    /\ tsOut = NotRun
    /\ FnIdle /\ SweepIdle /\ ProcsIdle

ResolveTimestamp ==
    /\ tsOut = NotRun
    /\ tsOut' = [ran |-> TRUE,
                 value |-> parse_timestamp("5", tsIn.dir, tsIn.files)]
    /\ UNCHANGED <<fs, users, posts, last, tsIn, fnIn, fnOut, sweep, procs>>

NextTs == ResolveTimestamp

SpecTs == InitTs /\ [][NextTs]_vars

----------------------------------------------------------------------------
(* Properties of parse_timestamp, under SpecTs *)

\* the four sources of the group that was resolved, in their fixed order
TsSources ==
    <<TimestampFromJson(tsIn.dir, tsIn.files),
      TimestampFromTxt(tsIn.dir, tsIn.files),
      TimestampFromName(tsIn.files),
      TimestampFromMtime(tsIn.dir, tsIn.files)>>

\* C9: parse_timestamp returns the value of the first of the four sources, in
\* the order metadata date, caption first line, file name epoch, modification
\* time of the first file, that yields a value; it returns None only when all
\* four fail; when the first three all yield a value and disagree, the result
\* is the value of the metadata file.
C9_PriorityChain ==
    tsOut.ran =>
        LET src == TsSources
            valid == {i \in 1..4 : src[i] # PyNone}
        IN  /\ (tsOut.value = PyNone) <=> (valid = {})
            /\ \A i \in valid :
                  (\A j \in valid : i <= j) => tsOut.value = src[i]
            /\ ( /\ {1, 2, 3} \subseteq valid
                 /\ src[1] # src[2] /\ src[1] # src[3] /\ src[2] # src[3] )
               => tsOut.value = src[1]

\* a group whose metadata date, caption line and file name epoch all parse
\* and disagree was resolved to the metadata date
C9_Witness ==
    /\ tsOut.ran
    /\ tsOut.value = Strptime(DateA)
    /\ LET src == TsSources
       IN  /\ src[1] = Strptime(DateA)
           /\ src[2] = Strptime(DateB)
           /\ src[3] # PyNone

\* 946684800 <= v < 2524608000 for v = <<v \div 10^5, v % 10^5>>, written out
C10_InBounds(v) ==
    /\ v[1] > 9466 \/ (v[1] = 9466 /\ v[2] >= 84800)
    /\ v[1] < 25246 \/ (v[1] = 25246 /\ v[2] < 8000)

\* the positions of the group whose name holds a run of 9 to 11 digits with a
\* value inside the bounds
C10_InBoundsAt ==
    {i \in 1..Len(tsIn.files) :
        LET m == EpochMatch(tsIn.files[i])
        IN  m # PyNone /\ C10_InBounds(IntOfDigits(m.s))}

\* C10: the file name source accepts a digit run of value v if and only if
\* 946684800 <= v < 2524608000: when the metadata and caption sources fail,
\* the result is the value of the first name whose run is inside the bounds,
\* and when no run is inside the bounds (as for 0000000001) no run is
\* returned and the result is that of the next source, the modification time.
C10_EpochBounds ==
    (/\ tsOut.ran
     /\ TimestampFromJson(tsIn.dir, tsIn.files) = PyNone
     /\ TimestampFromTxt(tsIn.dir, tsIn.files) = PyNone) =>
        LET inside == C10_InBoundsAt
        IN  /\ \A i \in 1..Len(tsIn.files) :
                  EpochAccepted(tsIn.files[i]) <=> (i \in inside)
            /\ \A i \in inside :
                  (\A j \in inside : i <= j)
                  => tsOut.value =
                        FromTimestamp(IntOfDigits(EpochMatch(tsIn.files[i]).s))
            /\ inside = {}
                  => tsOut.value = TimestampFromMtime(tsIn.dir, tsIn.files)

\* a group of one file, named with the run 0000000001, was resolved to the
\* modification time of that file
C10_Witness ==
    /\ tsOut.ran
    /\ tsIn.files = <<"5_0000000001.jpg">>
    /\ EpochMatch(tsIn.files[1]) = PyStr("0000000001")
    /\ tsOut.value = FromTimestamp(<<16000, 3>>)

----------------------------------------------------------------------------
(* Stand-alone evaluation of extract_tweet_id_from_filename on one name *)

\* the longest name the tagger is evaluated on
MaxName == 3

\* the characters of those names: two digits, a letter, the separator of
\* gallery-dl names and the dot of an extension
TagAlphabet == {"0", "7", "a", "_", "."}

RECURSIVE NamesOfLen(_)
NamesOfLen(n) ==
    IF n = 0 THEN {""}
    ELSE {s \o c : s \in NamesOfLen(n - 1), c \in TagAlphabet}

TagNames == UNION {NamesOfLen(n) : n \in 0..MaxName}

InitTag ==
    /\ StoreIdle
    /\ TsIdle /\ SweepIdle /\ ProcsIdle
    /\ fnIn \in {[kind |-> "name", name |-> n] : n \in TagNames}
    /\ fnOut = NotRun

TagName ==
    /\ fnIn.kind = "name"
    /\ fnOut = NotRun
    /\ fnOut' = [ran |-> TRUE,
                 value |-> extract_tweet_id_from_filename(fnIn.name)]
    /\ UNCHANGED <<fs, users, posts, last, tsIn, tsOut, fnIn, sweep, procs>>

NextTag == TagName

SpecTag == InitTag /\ [][NextTag]_vars

\* the decimal digits, written out
C11_Digits == {"0", "1", "2", "3", "4", "5", "6", "7", "8", "9"}

\* C11: for every name, the tagger returns the maximal run of decimal digits
\* at the start of the name, the run that a character that is no digit or
\* the end of the name stops, and it returns None if and only if the name
\* does not begin with a digit.
C11_LeadingRun ==
    (fnOut.ran /\ fnIn.kind = "name") =>
        LET name == fnIn.name
            r == fnOut.value
            starts == name # "" /\ Char(name, 1) \in C11_Digits
        IN  /\ (r = PyNone) <=> ~starts
            /\ starts =>
                  /\ r = PyStr(r.s)
                  /\ Len(r.s) >= 1 /\ Len(r.s) <= Len(name)
                  /\ r.s = SubSeq(name, 1, Len(r.s))
                  /\ \A i \in 1..Len(r.s) : Char(name, i) \in C11_Digits
                  /\ Len(r.s) = Len(name)
                        \/ Char(name, Len(r.s) + 1) \notin C11_Digits

\* the name 07a gave the identifier 07
C11_Witness ==
    /\ fnOut.ran
    /\ fnIn.kind = "name"
    /\ fnIn.name = "07a"
    /\ fnOut.value = PyStr("07")

----------------------------------------------------------------------------
(* Stand-alone evaluation of the grouping of one listing (lines 98-106) *)

\* the longest listing the grouping is evaluated on
MaxListing == 3

\* an entry of a directory that is itself a directory
DirEntry(name) ==
    [name |-> name, kind |-> "dir", mtime |-> MTime(16000, 9), content |-> Unreadable]

\* two files of post 111, one of post 222, two files without an identifier,
\* and two sub-directories whose names start with digits
GroupCatalog ==
    { RegularFile("111_a.jpg", MTime(16000, 1), BinaryFile),
      RegularFile("111_b.json", MTime(16000, 2), MalformedFile),
      RegularFile("222.jpg", MTime(16000, 3), BinaryFile),
      RegularFile("notes.txt", MTime(16000, 4), TextFile(<<"hello">>)),
      RegularFile(".7z", MTime(16000, 5), BinaryFile),
      DirEntry("333"),
      DirEntry("111_sub") }

GroupListings ==
    UNION {{q \in [1..n -> GroupCatalog] : \A i, j \in 1..n : i # j => q[i] # q[j]} :
              n \in 0..MaxListing}

InitGroup ==
    /\ StoreIdle
    /\ TsIdle /\ SweepIdle /\ ProcsIdle
    /\ fnIn \in {[kind |-> "listing", listing |-> q] : q \in GroupListings}
    /\ fnOut = NotRun

GroupListing ==
    /\ fnIn.kind = "listing"
    /\ fnOut = NotRun
    /\ fnOut' = [ran |-> TRUE, value |-> FilesByTweetId(fnIn.listing)]
    /\ UNCHANGED <<fs, users, posts, last, tsIn, tsOut, fnIn, sweep, procs>>

NextGroup == GroupListing

SpecGroup == InitGroup /\ [][NextGroup]_vars

\* C12: in the mapping the scan builds, every regular file of the directory
\* whose name begins with a digit is in exactly one group, once, the group
\* keyed by its leading run of digits; a file without identifier and an
\* entry that is no regular file is in no group, and the files listed after
\* it are grouped all the same; every group holds names of the listing only.
C12_Partition ==
    (fnOut.ran /\ fnIn.kind = "listing") =>
        LET q == fnIn.listing
            m == fnOut.value
        IN  /\ \A i \in 1..Len(q) :
                  LET d == LeadingDigits(q[i].name)
                  IN  IF q[i].kind = "file" /\ d # ""
                      THEN /\ d \in DOMAIN m
                           /\ \A id \in DOMAIN m :
                                 (\E j \in 1..Len(m[id]) : m[id][j] = q[i].name)
                                 <=> id = d
                           /\ Cardinality({j \in 1..Len(m[d]) : m[d][j] = q[i].name}) = 1
                      ELSE \A id \in DOMAIN m :
                              \A j \in 1..Len(m[id]) : m[id][j] # q[i].name
            /\ \A id \in DOMAIN m :
                  /\ m[id] # <<>>
                  /\ \A j \in 1..Len(m[id]) :
                        \E i \in 1..Len(q) : q[i].name = m[id][j]

\* a sub-directory named 333 and a file without identifier came first in
\* the listing, and the file of post 111 after them is the only group
C12_Witness ==
    /\ fnOut.ran
    /\ fnIn.kind = "listing"
    /\ Len(fnIn.listing) = 3
    /\ fnIn.listing[1] = DirEntry("333")
    /\ fnIn.listing[2].name = "notes.txt"
    /\ fnIn.listing[3].name = "111_a.jpg"
    /\ DOMAIN fnOut.value = {"111"}
    /\ fnOut.value["111"] = <<"111_a.jpg">>

----------------------------------------------------------------------------
(* Failures of the listing and of the commits *)

\* C14: a call in which a listing of the directory failed, at line 38 or at
\* line 101, returned to its caller, with no addition and with the count of
\* the posts it had deleted.
C14_ListingFailure ==
    (last.op = "sync" /\ "listdir" \in last.fired) =>
        /\ last.outcome = "returned"
        /\ last.added = 0
        /\ last.deleted = Cardinality(last.purged)

\* C15: a call in which a commit failed (of the new author, of the profile,
\* of the delete of a forced call, of the new posts) returned its counts to
\* its caller.
C15_PersistenceFailure ==
    (last.op = "sync"
        /\ last.fired \cap {"create", "profile", "delete", "insert"} # {}) =>
        last.outcome = "returned"

\* the call repeats, with no fault of its own and on the same files, a
\* call that was not forced and whose listing or insertion failed
C20_IsRetry ==
    /\ last.op = "sync"
    /\ last.retry
    /\ last.fired = {}
    /\ fs[last.h].exists

\* C20 as stated: after such a retry the author holds every identifier
\* derivable from the files of the directory.
C20_Original ==
    C20_IsRetry =>
        Ids(PostsOfHandle(users, posts, last.h)) = DerivableIds(fs[last.h])

\* C20 amended: such a retry scans, inserts exactly the identifiers of the
\* directory that are not stored yet, and the author then holds every
\* identifier derivable from the files that no other author holds.
C20_SelfHealing ==
    C20_IsRetry =>
        /\ last.outcome = "returned"
        /\ last.scan = "done"
        /\ last.inserted
              = DerivableIds(fs[last.h]) \ HeldByOthers(users, posts, last.h)
        /\ Ids(PostsOfHandle(users, posts, last.h)) = last.inserted
        /\ last.added = Cardinality(last.inserted)

\* a retry stored a post of the directory and skipped an identifier that
\* another author holds
C20_Witness ==
    /\ C20_IsRetry
    /\ last.inserted # {}
    /\ DerivableIds(fs[last.h]) \cap HeldByOthers(users, posts, last.h) # {}

----------------------------------------------------------------------------
(* Calls of process_and_cache_user_posts on a directory with broken files *)

\* the most entries of the directory, which is that of alice
MaxScanFiles == 2

\* files of post 5: a metadata file that is malformed, unreadable or good;
\* a caption file that is unreadable or dated;
\* a media file, and a media file whose modification time cannot be read;
\* and a media file of post 6
ScanCatalog ==
    { RegularFile("5.json", NoMTime, MalformedFile),
      RegularFile("5.json", NoMTime, Unreadable),
      RegularFile("5.json", MTime(16000, 1), JsonFile(AliceFull)),
      RegularFile("5.txt", NoMTime, Unreadable),
      RegularFile("5.txt", MTime(16000, 2), TextFile(<<DateB, "hello">>)),
      RegularFile("5_12345678.jpg", MTime(16000, 3), BinaryFile),
      RegularFile("5.mp4", NoMTime, BinaryFile),
      RegularFile("6.jpg", MTime(16000, 4), BinaryFile) }

ScanDirs ==
    {D \in SUBSET ScanCatalog :
        /\ Cardinality(D) <= MaxScanFiles
        /\ \A e, f \in D : e.name = f.name => e = f}

InitScan ==
    /\ \E D \in ScanDirs :
          fs = [h \in Handles |->
                   IF h = "alice" THEN [exists |-> TRUE, files |-> D]
                   ELSE AbsentDir]
    /\ users = [h \in Handles |-> NoRow]
    /\ posts = {}
    /\ last = NoCall
    /\ TsIdle /\ FnIdle /\ SweepIdle /\ ProcsIdle

SpecScan == InitScan /\ [][Sync]_vars

\* the entries of the directory of h that belong to post id
C13_Group(h, id) == {e \in fs[h].files : e.kind = "file" /\ LeadingDigits(e.name) = id}

\* the group has no metadata file that can be read and parsed
C13_NoMetadata(g) ==
    \A e \in g : EndsWith(e.name, ".json") => (e.content.io = "error" \/ ~e.content.json.ok)

\* the group has no caption file with a line that can be read
C13_NoCaption(g) ==
    \A e \in g : EndsWith(e.name, ".txt") => (e.content.io = "error" \/ e.content.lines = <<>>)

\* no file of the group gives a timestamp: no date in a metadata file, no
\* dated first line, no epoch in a name, no modification time
C13_NoTimestamp(g) ==
    /\ \A e \in g :
          /\ ~e.mtime.ok
          /\ ~EpochAccepted(e.name)
          /\ EndsWith(e.name, ".txt") =>
                (e.content.io = "error" \/ e.content.lines = <<>>
                    \/ ~StrptimeOk(Strip(e.content.lines[1])))
    /\ C13_NoMetadata(g)

\* C13: a call raises only when a commit or a listing of the directory
\* fails, never because of a file of a group; and after a scan whose
\* insertion succeeded every identifier of the directory is a stored post,
\* with the raw payload and the counters unknown when the group has no
\* metadata file that can be read and parsed, with the body unknown when
\* neither a metadata file nor a caption file gives one, and with the
\* timestamp unknown when every timestamp source fails.
C13_ParseErrorsNotFatal ==
    (last.op = "sync") =>
        /\ last.outcome = "raised"
              => last.fired \cap {"create", "listdir", "delete"} # {}
        /\ (fs[last.h].exists /\ ScanWentThrough(last)) =>
              \A id \in DerivableIds(fs[last.h]) :
                 LET g == C13_Group(last.h, id)
                     rows == {p \in PostsOfHandle(users, posts, last.h) : p.id = id}
                 IN  /\ Cardinality(rows) = 1
                     /\ \A p \in rows :
                           /\ C13_NoMetadata(g) =>
                                 /\ p.raw_json_data_text = PyNone
                                 /\ p.retweet_count = PyNone
                                 /\ p.reply_count = PyNone
                                 /\ p.favorite_count = PyNone
                                 /\ p.bookmark_count = PyNone
                           /\ (C13_NoMetadata(g) /\ C13_NoCaption(g))
                                 => p.text_content = PyNone
                           /\ C13_NoTimestamp(g) => p.timestamp = PyNone

\* a malformed metadata file and a media file without modification time
\* gave a stored post 5 with every field unknown but its media list
C13_Witness ==
    /\ last.op = "sync"
    /\ last.outcome = "returned"
    /\ ScanWentThrough(last)
    /\ {e.name : e \in fs[last.h].files} = {"5.json", "5.mp4"}
    /\ \E e \in fs[last.h].files : e.content = MalformedFile
    /\ \E p \in posts :
          /\ p.id = "5"
          /\ p.raw_json_data_text = PyNone
          /\ p.text_content = PyNone
          /\ p.timestamp = PyNone
          /\ p.media_files_json = JsonDumps(PyList(<<"alice/5.mp4">>))

\* C16: the commit of the profile and the commit of the posts are separate
\* units. When the commit of the profile fails the profile columns of the
\* author stay as they were, and the call still scans (unless it returns
\* early or its delete fails) and stores the posts of the directory; when
\* the commit of the posts fails the call adds no post and the author keeps
\* the profile that the call refreshed and committed.
C16_IndependentUnits ==
    [][(last'.op = "sync" /\ IsDir(last'.h)) =>
          LET h == last'.h
              before == WithUser(users, h)[h]
              fired == last'.fired
          IN  /\ "profile" \in fired =>
                    /\ \A c \in ProfileColumns : users'[h][c] = before[c]
                    /\ ((last'.force \/ PostsOfHandle(users, posts, h) = {})
                           /\ "delete" \notin fired) =>
                          /\ last'.scan # "none"
                          /\ fired = {"profile"} =>
                                DerivableIds(fs[h]) \subseteq Ids(posts')
              /\ ("insert" \in fired /\ "profile" \notin fired) =>
                    /\ users'[h] = MergeProfile(before, SelectUserJson(fs[h].files, h))
                    /\ posts' \subseteq posts
                    /\ last'.outcome = "returned"
      ]_vars

\* a call whose profile commit failed left the columns of the new author
\* empty, although a metadata file names her, and stored a post
C16_Witness ==
    /\ last.op = "sync"
    /\ last.fired = {"profile"}
    /\ last.inserted # {}
    /\ SelectUserJson(fs[last.h].files, last.h) # EmptyDict
    /\ users[last.h].followers_count = PyNone
    /\ \E p \in posts : p.id \in last.inserted

----------------------------------------------------------------------------
(* app/cli.py scan_all_users_command and run.py auto_scan_all_users_job *)

\* cli.py lines 14-28 and run.py lines 16-23: user_dirs, the directories
\* under the root folder in the order os.listdir gives them; the job passes
\* force_rescan=False
SweepStart(kind, force_rescan, user_dirs) ==
    /\ sweep.state # "running"
    /\ kind = "job" => ~force_rescan
    /\ Range(user_dirs) = {h \in Handles : fs[h].exists}
    /\ sweep' = [state |-> IF user_dirs = <<>> THEN "finished" ELSE "running",
                 kind |-> kind, force |-> force_rescan,
                 todo |-> user_dirs, done |-> <<>>]
    /\ last' = NoCall
    /\ UNCHANGED <<fs, users, posts, tsIn, tsOut, fnIn, fnOut, procs>>

\* cli.py lines 30-35 and run.py lines 25-28: one turn of the loop; the call
\* is in no try block, so when it raises the loop is left
SweepStep ==
    /\ sweep.state = "running"
    /\ process_and_cache_user_posts(Head(sweep.todo), sweep.force)
    /\ sweep' = IF last'.outcome = "raised"
                THEN [sweep EXCEPT !.state = "aborted"]
                ELSE [sweep EXCEPT
                         !.state = IF Tail(sweep.todo) = <<>> THEN "finished"
                                   ELSE "running",
                         !.todo = Tail(sweep.todo),
                         !.done = Append(sweep.done, Head(sweep.todo))]
    /\ UNCHANGED <<tsIn, tsOut, fnIn, fnOut, procs>>

InitSweep ==
    /\ fs \in [Handles -> {AbsentDir, [exists |-> TRUE, files |-> {}]}]
    /\ users = [h \in Handles |-> NoRow]
    /\ posts = {}
    /\ last = NoCall
    /\ TsIdle /\ FnIdle /\ SweepIdle /\ ProcsIdle

NextSweep ==
    \/ \E kind \in {"cli", "job"}, force_rescan \in BOOLEAN,
          user_dirs \in UNION {Orderings(S) : S \in SUBSET Handles} :
             SweepStart(kind, force_rescan, user_dirs)
    \/ SweepStep
    \/ \E h \in Handles : \E e \in Catalog(h) : PutFile(h, e)

SpecSweep == InitSweep /\ [][NextSweep]_vars

\* C17: no sweep stops while directories it listed are still to be synced:
\* whatever happens in the call for one author, the loop goes on to the
\* authors after it.
C17_SweepIsolation ==
    sweep.state = "aborted" => Tail(sweep.todo) = <<>>

\* the call of the step got to the commit of the profile refresh: the
\* commit failed, or the row of the author is the row it had (or was
\* given) merged with the metadata selected in the directory
C25_Refreshed ==
    \/ "profile" \in last'.fired
    \/ /\ users'[last'.h] # NoRow
       /\ users'[last'.h] = MergeProfile(WithUser(users, last'.h)[last'.h],
                               SelectUserJson(fs[last'.h].files, last'.h))

C30_NotOwnedBy(rows, table, h) ==
    {p \in table : rows[h] = NoRow \/ p.user_id # rows[h].id.n}

\* C30: a call for h, forced or not, whatever its outcome, leaves the row
\* of every other author and every post that h does not own as they were:
\* it adds none, deletes none, changes none, and the posts a forced call
\* deletes are all owned by h.
C30_AuthorScoped ==
    [][IsCall =>
          /\ \A g \in Handles \ {last'.h} : users'[g] = users[g]
          /\ C30_NotOwnedBy(users', posts', last'.h)
                = C30_NotOwnedBy(users', posts, last'.h)
          /\ \A p \in posts \ posts' :
                users[last'.h] # NoRow /\ p.user_id = users[last'.h].id.n
      ]_vars

\* a forced call deleted posts of its author and stored posts again, in a
\* directory that holds a file of an identifier stored for the other
\* author, whose row and post are in the store
C30_Witness ==
    /\ last.op = "sync" /\ last.force
    /\ last.purged # {}
    /\ last.inserted # {}
    /\ \E g \in Handles \ {last.h} :
          /\ users[g] # NoRow
          /\ \E p \in posts :
                /\ p.user_id = users[g].id.n
                /\ p.id \in DerivableIds(fs[last.h])

\* C31: the posts a scan extracts are stored by one commit: after a call
\* that got to that commit, either every post the directory gives and the
\* store did not hold is stored, or, the commit having failed, none is.
C31_AtomicInsert ==
    [][(IsCall /\ last'.scan = "done") =>
          LET h == last'.h
              kept == {p \in posts : p.id \notin last'.purged}
              new == posts' \ kept
              expected == DerivableIds(fs[h]) \ Ids(kept)
          IN  /\ kept \subseteq posts'
              /\ IF "insert" \in last'.fired
                 THEN new = {}
                 ELSE /\ Ids(new) = expected
                      /\ Cardinality(new) = Cardinality(expected)
      ]_vars

\* the commit of a scan that had two posts to store failed: none of them
\* is in the store
C31_Witness ==
    /\ last.op = "sync" /\ last.scan = "done"
    /\ "insert" \in last.fired
    /\ last.added = 2
    /\ Ids(posts) \cap DerivableIds(fs[last.h]) = {}

\* C32: the added count a call returns is the number of posts the call
\* stored, whatever the outcome of its commits and listings.
C32_AddedIsPersisted ==
    [][(IsCall /\ last'.outcome = "returned") =>
          LET kept == {p \in posts : p.id \notin last'.purged}
          IN  last'.added = Cardinality(posts' \ kept)
      ]_vars

\* C33: a call that is not forced removes no post from the store and,
\* when it returns, returns a deleted count of 0; so the posts of an author
\* never get fewer and an author with posts never gets to have none.
C33_NonForceKeeps ==
    [][(IsCall /\ ~last'.force) =>
          /\ posts \subseteq posts'
          /\ last'.outcome = "returned" => last'.deleted = 0
          /\ \A h \in Handles :
                /\ PostsOfHandle(users, posts, h)
                      \subseteq PostsOfHandle(users', posts', h)
                /\ AuthorState(users, posts, h) = "Populated" =>
                      AuthorState(users', posts', h) = "Populated"
      ]_vars

\* a call of the job for an author with posts, in a directory that holds a
\* file of an identifier the store does not hold, returned (0, 0) and the
\* posts of the author are in the store
C33_Witness ==
    /\ last.op = "sync" /\ ~last.force
    /\ last.state = "Populated"
    /\ last.outcome = "returned"
    /\ last.deleted = 0
    /\ sweep.kind = "job"
    /\ PostsOfHandle(users, posts, last.h) # {}
    /\ DerivableIds(fs[last.h]) \ Ids(posts) # {}

\* C34: when the directory of an author holds files of an identifier that
\* is stored as a post of another author, every call for the first author,
\* forced or not, leaves that post as it is, with its owner, stores no
\* other post of that identifier, and does not count it as added.
C34_SkipByIdAlone ==
    [][IsCall =>
          LET h == last'.h
              held == {p \in C30_NotOwnedBy(users', posts, h) :
                          p.id \in DerivableIds(fs[h])}
          IN  /\ \A p \in held :
                    /\ p \in posts'
                    /\ \A q \in posts' : q.id = p.id => q = p
                    /\ p.id \notin last'.inserted
              /\ last'.added <= Cardinality(DerivableIds(fs[h]) \ Ids(held))
      ]_vars

\* a forced call, with no fault, for an author whose directory holds
\* nothing but a file of an identifier stored for the other author added
\* nothing, and the post is the other author's
C34_Witness ==
    /\ last.op = "sync" /\ last.force
    /\ last.scan = "done" /\ last.fired = {}
    /\ last.added = 0
    /\ DerivableIds(fs[last.h]) # {}
    /\ \A i \in DerivableIds(fs[last.h]) :
          \E p \in posts : p.id = i /\ p.user_id # users[last.h].id.n

\* C39: the delete of a forced call is committed before the scan: when
\* the listing of the scan or the commit of the new posts then fails, the
\* call returns, the author is left with no post (state Empty), the posts
\* it had are not in the store, and the deleted count is their number.
C39_NotRestored ==
    [][(/\ IsCall /\ last'.force
        /\ last'.outcome = "returned"
        /\ (last'.scan = "failed" \/ "insert" \in last'.fired)) =>
          LET h == last'.h
              had == PostsOfHandle(users, posts, h)
          IN  /\ PostsOfHandle(users', posts', h) = {}
              /\ AuthorState(users', posts', h) = "Empty"
              /\ had \cap posts' = {}
              /\ last'.deleted = Cardinality(had)
              /\ last'.purged = Ids(had)
      ]_vars

\* a forced call for an author with two posts deleted them, its commit of
\* the new posts failed, and the author has no post
C39_Witness ==
    /\ last.op = "sync" /\ last.force
    /\ last.state = "Populated"
    /\ last.outcome = "returned"
    /\ "insert" \in last.fired
    /\ last.deleted = 2
    /\ PostsOfHandle(users, posts, last.h) = {}

----------------------------------------------------------------------------
(* Calls of process_and_cache_user_posts one after the other on directories *)
(* that do not change; when a forced call follows a forced call for the same *)
(* author, fnOut keeps the record of the first                               *)

InitRebuild ==
    /\ fs \in [Handles -> {AbsentDir} \cup
                  {[exists |-> TRUE, files |-> D] :
                      D \in UNION {Dirs(h) : h \in Handles}}]
    /\ \A h \in Handles : fs[h].exists => fs[h].files \in Dirs(h)
    /\ users = [h \in Handles |-> NoRow]
    /\ posts = {}
    /\ last = NoCall
    /\ fnIn = [kind |-> "calls"]
    /\ fnOut = NoCall
    /\ TsIdle /\ SweepIdle /\ ProcsIdle

SyncAgain ==
    \E username \in Handles, force_rescan \in BOOLEAN :
        /\ process_and_cache_user_posts(username, force_rescan)
        /\ fnOut' = IF last.op = "sync" /\ last.h = username
                        /\ last.force /\ force_rescan
                     THEN last ELSE NoCall
        /\ UNCHANGED <<tsIn, tsOut, fnIn, sweep, procs>>

SpecRebuild == InitRebuild /\ [][SyncAgain]_vars

\* the last two calls were forced calls for the same author, both returned,
\* no commit of either failed, and no other author holds an identifier of
\* the directory
C35_TwoRebuilds ==
    /\ last.op = "sync" /\ fnOut.op = "sync"
    /\ last.h = fnOut.h
    /\ last.force /\ fnOut.force
    /\ fnOut.outcome = "returned"
    /\ (last.fired \cup fnOut.fired)
          \cap {"create", "profile", "delete", "insert"} = {}
    /\ DerivableIds(fs[last.h])
          \cap Ids(C30_NotOwnedBy(users, posts, last.h)) = {}

\* the second call returned (n, n), n the added count of the first, and the
\* identifiers of the author are those the first call left
C35_SameAgain ==
    /\ last.outcome = "returned"
    /\ last.added = fnOut.added
    /\ last.deleted = fnOut.added
    /\ Ids(PostsOfHandle(users, posts, last.h)) = fnOut.inserted

----------------------------------------------------------------------------
(* Two calls of process_and_cache_user_posts at once: the page view of      *)
(* app/routes.py in a request thread and the job of run.py in the thread of *)
(* the scheduler, each with its own session on the same store.  A step is   *)
(* one read or one commit of a call; no fault is injected: a commit fails   *)
(* only on a constraint of the store (unique username, primary key of post).*)

Procs == {"web", "job"}

NoWork == [pc |-> "idle", h |-> "", listing |-> <<>>, todo |-> <<>>, batch |-> {}, extracted |-> {}]

Ended(p) == procs[p].pc \in {"returned", "raised"}

InProgress(p) == procs[p].pc \notin {"idle", "returned", "raised"}

\* the keys of files_by_tweet_id in the order of their first file, which is
\* the order the loop of line 115 takes them
IdOrder(listing) ==
    LET g == Grouped(listing)
        First(i) == \A j \in 1..(i - 1) : IdOf(g[j]) # IdOf(g[i])
        firsts == SelectSeq([i \in 1..Len(g) |-> i], First)
    IN  [k \in 1..Len(firsts) |-> IdOf(g[firsts[k]])]

\* routes.py lines 81-92 and 153-163: a page view of an author whose
\* directory exists and who has no row or no post calls the function;
\* run.py lines 21-26: the job calls it for every directory.  No lock is
\* taken.  services.py lines 25-29: the directory exists, the row is read.
Trigger(p, h) ==
    /\ ~InProgress(p)
    /\ fs[h].exists
    /\ p = "web" => (users[h] = NoRow \/ PostsOfHandle(users, posts, h) = {})
    /\ procs' = [procs EXCEPT ![p] =
                    [NoWork EXCEPT !.h = h,
                        !.pc = IF users[h] = NoRow THEN "create" ELSE "refresh"]]
    /\ UNCHANGED <<fs, users, posts, last, tsIn, tsOut, fnIn, fnOut, sweep>>

\* a commit of the new row on a table user without unique constraint
CreateUser_NoUnique(p) ==
    /\ procs[p].pc = "create"
    /\ users' = [users EXCEPT ![procs[p].h] =
                    NewUser(procs[p].h, NextUserId(users))]
    /\ procs' = [procs EXCEPT ![p].pc = "refresh"]
    /\ UNCHANGED <<fs, posts, last, tsIn, tsOut, fnIn, fnOut, sweep>>

\* services.py lines 31-33: the commit of the new row, which violates the
\* unique constraint of models.py line 11 when another call created the
\* author since line 29; the exception leaves the function
CreateUser(p) ==
    /\ procs[p].pc = "create"
    /\ IF users[procs[p].h] = NoRow
       THEN /\ users' = WithUser(users, procs[p].h)
            /\ procs' = [procs EXCEPT ![p].pc = "refresh"]
       ELSE /\ users' = users
            /\ procs' = [procs EXCEPT ![p].pc = "raised"]
    /\ UNCHANGED <<fs, posts, last, tsIn, tsOut, fnIn, fnOut, sweep>>

\* services.py lines 36-81: the profile refresh and its commit
RefreshProfile(p) ==
    /\ procs[p].pc = "refresh"
    /\ users' = Refreshed(users, fs[procs[p].h].files, procs[p].h, FALSE)
    /\ procs' = [procs EXCEPT ![p].pc = "skiptest"]
    /\ UNCHANGED <<fs, posts, last, tsIn, tsOut, fnIn, fnOut, sweep>>

\* services.py lines 91-106: db_user.posts is loaded; with posts the call
\* returns, without it lists the directory and groups the files
StartScan(p, listing) ==
    /\ procs[p].pc = "skiptest"
    /\ listing \in Orderings(fs[procs[p].h].files)
    /\ IF MustSkip(users, posts, procs[p].h, FALSE)
       THEN procs' = [procs EXCEPT ![p].pc = "returned"]
       ELSE procs' = [procs EXCEPT ![p].listing = listing,
                                   ![p].todo = IdOrder(listing),
                                   ![p].pc = IF IdOrder(listing) = <<>>
                                             THEN "commit" ELSE "scan"]
    /\ UNCHANGED <<fs, users, posts, last, tsIn, tsOut, fnIn, fnOut, sweep>>

\* services.py lines 115-192: one turn of the loop.  db.session.get reads the
\* store; a post found is skipped, another is built and added to the
\* session.  The read may first flush the posts added so far (autoflush):
\* when the store has got a row with the id of one of them the flush
\* violates the primary key and the exception leaves the function.
CheckId(p, flush_raises) ==
    LET me == procs[p]
        tweet_id == Head(me.todo)
        user_id == users[me.h].id.n
        post == ExtractPost(me.h, user_id, Range(me.listing), tweet_id,
                            GroupFiles(me.listing, tweet_id))
        rest == Tail(me.todo)
    IN  /\ me.pc = "scan"
        /\ flush_raises => Ids(me.batch) \cap Ids(posts) # {}
        /\ procs' = [procs EXCEPT ![p] =
              IF flush_raises THEN [me EXCEPT !.pc = "raised"]
              ELSE IF PostExists(posts, tweet_id)
              THEN [me EXCEPT !.todo = rest,
                              !.pc = IF rest = <<>> THEN "commit" ELSE "scan"]
              ELSE [me EXCEPT !.todo = rest,
                              !.batch = @ \cup {post},
                              !.extracted = @ \cup {tweet_id},
                              !.pc = IF rest = <<>> THEN "commit" ELSE "scan"]]
        /\ UNCHANGED <<fs, users, posts, last, tsIn, tsOut, fnIn, fnOut, sweep>>

\* a commit on a table post without primary key
CommitPosts_NoKey(p) ==
    /\ procs[p].pc = "commit"
    /\ posts' = posts \cup procs[p].batch
    /\ procs' = [procs EXCEPT ![p].pc = "returned"]
    /\ UNCHANGED <<fs, users, last, tsIn, tsOut, fnIn, fnOut, sweep>>

\* services.py lines 194-201: the commit of the added posts, all or none;
\* it violates the primary key of models.py line 52 when the store has got
\* a row with one of their ids, and is then rolled back
CommitPosts(p) ==
    /\ procs[p].pc = "commit"
    /\ posts' = IF Ids(procs[p].batch) \cap Ids(posts) = {}
                THEN posts \cup procs[p].batch
                ELSE posts
    /\ procs' = [procs EXCEPT ![p].pc = "returned"]
    /\ UNCHANGED <<fs, users, last, tsIn, tsOut, fnIn, fnOut, sweep>>

InitConc ==
    /\ fs \in [Handles -> {[exists |-> TRUE, files |-> D] :
                              D \in UNION {Dirs(h) : h \in Handles}}]
    /\ \A h \in Handles : fs[h].files \in Dirs(h)
    /\ users = [h \in Handles |-> NoRow]
    /\ posts = {}
    /\ last = NoCall
    /\ TsIdle /\ FnIdle /\ SweepIdle
    /\ procs = [p \in Procs |-> NoWork]

NextConc ==
    \E p \in Procs :
       \/ \E h \in Handles : Trigger(p, h)
       \/ CreateUser(p)
       \/ RefreshProfile(p)
       \/ /\ procs[p].pc = "skiptest"
          /\ \E listing \in Orderings(fs[procs[p].h].files) : StartScan(p, listing)
       \/ \E flush_raises \in BOOLEAN : CheckId(p, flush_raises)
       \/ CommitPosts(p)

SpecConc == InitConc /\ [][NextConc]_vars

\* C18: at every moment at most one call is in progress for an author.
C18_MutualExclusion ==
    \A p, q \in Procs :
       (InProgress(p) /\ InProgress(q) /\ procs[p].h = procs[q].h) => p = q

\* C19: the store never holds two posts with one id, and once the page view
\* and the job have both ended every post that both of them extracted is in
\* the store.
C19_ConcurrentSafe ==
    /\ \A a, b \in posts : a.id = b.id => a = b
    /\ (\A p \in Procs : Ended(p)) =>
          (procs["web"].extracted \cap procs["job"].extracted) \subseteq Ids(posts)

\* both calls ran for alice and extracted post 111, the commit of one of
\* them was rolled back, and the store holds one post 111
C19_Witness ==
    /\ \A p \in Procs : procs[p].pc = "returned" /\ procs[p].h = "alice"
    /\ "111" \in procs["web"].extracted \cap procs["job"].extracted
    /\ Cardinality({a \in posts : a.id = "111"}) = 1

\* C37: when the page view and the job have both returned from a call for
\* the same author, no identifier is in the added count of both (the added
\* count of a call is the number of posts it extracted), so the two counts
\* add up to at most the number of posts the two calls stored.
C37_CountedOnce ==
    (/\ \A p \in Procs : procs[p].pc = "returned"
     /\ procs["web"].h = procs["job"].h)
    => /\ procs["web"].extracted \cap procs["job"].extracted = {}
       /\ Cardinality(procs["web"].extracted) + Cardinality(procs["job"].extracted)
             <= Cardinality(PostsOfHandle(users, posts, procs["web"].h))

\* C38: the store never has two author rows of one handle: the commit of a
\* new row goes through only when the store holds no row of the handle,
\* also when two calls for an author without a row have both read that
\* there is none; a row keeps its handle and its id, and no two rows have
\* the same id.
C38_OneRowPerHandle ==
    [][/\ \A p \in Procs :
             (procs[p].pc = "create" /\ procs'[p].pc = "refresh") =>
                /\ users[procs[p].h] = NoRow
                /\ users'[procs[p].h] # NoRow
                /\ users'[procs[p].h].username = PyStr(procs[p].h)
       /\ \A h \in Handles : users[h] # NoRow =>
             /\ users'[h] # NoRow
             /\ users'[h].id = users[h].id
             /\ users'[h].username = users[h].username
       /\ \A h, g \in Handles :
             (users'[h] # NoRow /\ users'[g] # NoRow /\ h # g) =>
                users'[h].id # users'[g].id
      ]_vars

\* the page view and the job both read that the author had no row; the
\* commit of one stored the row, the commit of the other raised
C38_Witness ==
    /\ procs["web"].h \in Handles
    /\ procs["web"].h = procs["job"].h
    /\ users[procs["web"].h] # NoRow
    /\ \E p, q \in Procs :
          /\ procs[p].pc = "raised"
          /\ procs[p].batch = {} /\ procs[p].listing = <<>>
          /\ procs[q].pc \notin {"idle", "create", "raised"}

----------------------------------------------------------------------------
(* app/__init__.py create_app and config.py *)

\* the variables of the process environment that are looked at, and the
\* values they are given; PyNone stands for a variable that is not set
EnvNames == {"SECRET_KEY", "LOG_LEVEL", "FLASK_APP"}

EnvValues == {PyNone, PyStr(""), PyStr("new-secure-key"), PyStr("DEBUG")}

\* __init__.py line 10: the configuration of Flask(__name__) before any
\* file is loaded, as far as this application reads it
FlaskDefaults == [SECRET_KEY |-> PyNone, DEBUG |-> PyBool(FALSE)]

\* config.py lines 1-29: the upper-case names the file assigns.  Every
\* right-hand side is a literal or built from BASE_DIR; the file reads no
\* variable of the environment and assigns no SECRET_KEY.
ConfigPy(environ) ==
    [ROOT_DATA_FOLDER |-> PyStr("D:\\Gallery-dl\\twitter"),
     USER_AVATAR_FOLDER |-> PyStr("D:\\img"),
     DEFAULT_AVATAR_FILENAME |-> PyStr("default_profile_normal.png"),
     SQLALCHEMY_DATABASE_URI |-> PyStr("sqlite:///BASE_DIR/twitter_archive.db"),
     SQLALCHEMY_TRACK_MODIFICATIONS |-> PyBool(FALSE),
     LOG_FILE |-> PyStr("BASE_DIR/app.log"),
     LOG_LEVEL |-> PyStr("INFO"),
     POSTS_PER_PAGE |-> PyInt(20),
     ENABLE_AUTO_SCAN |-> PyBool(TRUE),
     AUTO_SCAN_INTERVAL_HOURS |-> PyInt(24)]

\* __init__.py lines 9-19 and 56: app.config after create_app(config_file);
\* from_pyfile runs the file and keeps its upper-case names
create_app(config_file, environ) ==
    LET loaded == ConfigPy(environ)
        keys == DOMAIN FlaskDefaults \cup DOMAIN loaded
    IN  IF config_file = "config.py"       \* os.path.exists(config_path)
        THEN PyDict([k \in keys |-> IF k \in DOMAIN loaded THEN loaded[k]
                                     ELSE FlaskDefaults[k]])
        ELSE PyDict(FlaskDefaults)

InitApp ==
    /\ StoreIdle /\ TsIdle /\ SweepIdle /\ ProcsIdle
    /\ fnIn \in {[kind |-> "app", config_file |-> c, environ |-> v] :
                    c \in {"config.py", "settings.py"},
                    v \in [EnvNames -> EnvValues]}
    /\ fnOut = NotRun

CreateApp ==
    /\ fnIn.kind = "app"
    /\ fnOut = NotRun
    /\ fnOut' = [ran |-> TRUE,
                 value |-> create_app(fnIn.config_file, fnIn.environ)]
    /\ UNCHANGED <<fs, users, posts, last, tsIn, tsOut, fnIn, sweep, procs>>

SpecApp == InitApp /\ [][CreateApp]_vars

\* C21: the application that create_app() makes from the config.py of the
\* repository has a SECRET_KEY that is not empty.
C21_SecretKeySet ==
    (fnIn.kind = "app" /\ fnOut.ran /\ fnIn.config_file = "config.py") =>
        Truthy(DictGet(fnOut.value, "SECRET_KEY", PyNone))

\* C22: when SECRET_KEY is set in the environment before create_app() is
\* called, the SECRET_KEY of the application is that value.
C22_SecretKeyOverride ==
    (fnIn.kind = "app" /\ fnOut.ran /\ fnIn.config_file = "config.py"
        /\ fnIn.environ["SECRET_KEY"] # PyNone) =>
        DictGet(fnOut.value, "SECRET_KEY", PyNone) = fnIn.environ["SECRET_KEY"]

----------------------------------------------------------------------------
(* The profile refresh of services.py lines 36-72 on directories with       *)
(* several candidate files                                                  *)

\* the most entries of a directory
MaxProfileFiles == 3

\* a metadata file whose sub-record under `key` has the nick, the name and
\* the followers_count given
ProfileFile(file_name, key, nick, name, followers_count) ==
    RegularFile(file_name, MTime(16000, 1),
        JsonFile(PyDict([k \in {key} |->
            PyDict([nick |-> PyStr(nick), name |-> PyStr(name),
                    followers_count |-> PyInt(followers_count)])])))

\* candidates that name alice by nick or by name, under author or under
\* user; one that names bob; one whose author is bob and whose user has the
\* nick alice; files that do not read or do not parse, or hold no object;
\* a directory called like a metadata file; a caption file
ProfileCatalog ==
    { ProfileFile("1.json", "author", "alice", "Alice A", 1),
      ProfileFile("10.json", "author", "alice", "Alice A", 10),
      ProfileFile("2.json", "user", "Alice A", "alice", 2),
      ProfileFile("4.json", "author", "bob", "Bob B", 4),
      RegularFile("5.json", MTime(16000, 1),
          JsonFile(PyDict([author |-> PyDict([nick |-> PyStr("bob"),
                                              name |-> PyStr("Bob B"),
                                              followers_count |-> PyInt(5)]),
                           user |-> PyDict([nick |-> PyStr("alice")])]))),
      RegularFile("3.json", MTime(16000, 1), MalformedFile),
      RegularFile("3.json", NoMTime, Unreadable),
      RegularFile("6.json", MTime(16000, 1), JsonFile(PyList(<<>>))),
      RegularFile("7.json", MTime(16000, 1),
          JsonFile(PyDict([author |-> PyStr("alice")]))),
      DirEntry("9.json"),
      RegularFile("8.txt", MTime(16000, 1), TextFile(<<"alice">>)) }

ProfileDirs ==
    {D \in SUBSET ProfileCatalog :
        /\ Cardinality(D) <= MaxProfileFiles
        /\ \A e, f \in D : e.name = f.name => e = f}

InitProfile ==
    /\ StoreIdle /\ TsIdle /\ SweepIdle /\ ProcsIdle
    /\ fnIn \in {[kind |-> "profile", dir |-> D, username |-> "alice"] :
                    D \in ProfileDirs}
    /\ fnOut = NotRun

\* lines 36-72 for an author that was just created
RefreshProfileOf ==
    /\ fnIn.kind = "profile"
    /\ fnOut = NotRun
    /\ fnOut' = [ran |-> TRUE,
                 user_json_data |-> SelectUserJson(fnIn.dir, fnIn.username),
                 db_user |-> MergeProfile(NewUser(fnIn.username, 1),
                                 SelectUserJson(fnIn.dir, fnIn.username))]
    /\ UNCHANGED <<fs, users, posts, last, tsIn, tsOut, fnIn, sweep, procs>>

SpecProfile == InitProfile /\ [][RefreshProfileOf]_vars

\* the author sub-record of a metadata file: author, or else user
C23_SubRecord(e) ==
    PyOr(DictGet(e.content.json.v, "author", PyNone),
         DictGet(e.content.json.v, "user", PyNone))

\* the entry is a metadata file that reads and parses and whose author
\* sub-record has the handle as its nick or as its name
C23_Matching(e, h) ==
    /\ e.kind = "file" /\ EndsWith(e.name, ".json")
    /\ e.content.io = "ok" /\ e.content.json.ok
    /\ IsDict(e.content.json.v)
    /\ IsDict(C23_SubRecord(e))
    /\ \/ DictGet(C23_SubRecord(e), "nick", PyNone) = PyStr(h)
       \/ DictGet(C23_SubRecord(e), "name", PyNone) = PyStr(h)

\* C23: the source of the profile is the author sub-record of the matching
\* metadata file with the greatest name in string order, whatever files
\* that do not read, do not parse or do not match come before it; without
\* a matching file there is no source.
C23_GreatestMatching ==
    (fnIn.kind = "profile" /\ fnOut.ran) =>
        LET good == {e \in fnIn.dir : C23_Matching(e, fnIn.username)}
        IN  IF good = {} THEN fnOut.user_json_data = EmptyDict
            ELSE \E e \in good :
                    /\ \A f \in good : f = e \/ StrLess(f.name, e.name)
                    /\ fnOut.user_json_data = C23_SubRecord(e)

\* C24: a sub-record that populates the profile has the handle as its own
\* nick or as its own name.
C24_OwnNickOrName ==
    (fnIn.kind = "profile" /\ fnOut.ran /\ fnOut.user_json_data # EmptyDict) =>
        \/ DictGet(fnOut.user_json_data, "nick", PyNone) = PyStr(fnIn.username)
        \/ DictGet(fnOut.user_json_data, "name", PyNone) = PyStr(fnIn.username)

----------------------------------------------------------------------------
(* The post that lines 120-192 of services.py build from one group *)

\* the most files of a group
MaxPostFiles == 3

PostFile(name, content) == RegularFile(name, MTime(16000, 1), content)

\* files of post 5.  Metadata: full_text only; an empty full_text and a
\* content; content and text; no text field; an empty text only; malformed.
\* Captions: dated, not dated, the date only, empty, unreadable; and a
\* second caption file.  Media with lower
\* and upper case extensions, a file that is no media, and a media file
\* with a backslash in its name (a name that only a POSIX host allows).
PostCatalog ==
    { PostFile("5.json", JsonFile(PyDict([full_text |-> PyStr("hi")]))),
      PostFile("5.json", JsonFile(PyDict([full_text |-> PyStr(""),
                                          content |-> PyStr("later")]))),
      PostFile("5.json", JsonFile(PyDict([content |-> PyStr("c"),
                                          text |-> PyStr("t")]))),
      PostFile("5.json", JsonFile(PyDict([retweet_count |-> PyInt(1)]))),
      PostFile("5.json", JsonFile(PyDict([text |-> PyStr("")]))),
      PostFile("5.json", MalformedFile),
      PostFile("5.txt", TextFile(<<DateB, "hello">>)),
      PostFile("5.txt", TextFile(<<"hello", " hello ">>)),
      PostFile("5.txt", TextFile(<<DateB>>)),
      PostFile("5.txt", TextFile(<<>>)),
      PostFile("5.txt", Unreadable),
      PostFile("5_b.txt", TextFile(<<"other">>)),
      PostFile("5_1.jpg", BinaryFile),
      PostFile("5_2.JPG", BinaryFile),
      PostFile("5.pdf", BinaryFile),
      PostFile("5_a\\b.png", BinaryFile) }

HasBackslash(name) == \E i \in 1..Len(name) : Char(name, i) = "\\"

\* a group on a host: on a host whose separator is the backslash no name
\* holds one
PostInputs ==
    {[kind |-> "post", sep |-> sep, dir |-> D, files |-> q] :
        <<sep, D, q>> \in
           UNION {{<<sep, D, q>> : q \in {[i \in DOMAIN o |-> o[i].name] :
                                             o \in Orderings(D)}} :
                     <<sep, D>> \in
                        {x \in {"/", "\\"} \X SUBSET PostCatalog :
                            /\ x[2] # {}
                            /\ Cardinality(x[2]) <= MaxPostFiles
                            /\ \A e, f \in x[2] : e.name = f.name => e = f
                            /\ x[1] = "\\" =>
                                  \A e \in x[2] : ~HasBackslash(e.name)}}}

InitPost ==
    /\ StoreIdle /\ TsIdle /\ SweepIdle /\ ProcsIdle
    /\ fnIn \in PostInputs
    /\ fnOut = NotRun

\* lines 120-192 for the group of post 5 of alice
BuildPost ==
    /\ fnIn.kind = "post"
    /\ fnOut = NotRun
    /\ fnOut' = [ran |-> TRUE,
                 post |-> ExtractPost("alice", 1, fnIn.dir, "5", fnIn.files),
                 media_files |-> MediaFilesOn(fnIn.sep, "alice", fnIn.files)]
    /\ UNCHANGED <<fs, users, posts, last, tsIn, tsOut, fnIn, sweep, procs>>

SpecPost == InitPost /\ [][BuildPost]_vars

\* the record of the metadata file of the group, PyNone when the group has
\* none or it does not parse to an object
C26_Record ==
    LET js == {e \in fnIn.dir : EndsWith(e.name, ".json")}
    IN  IF js = {} THEN PyNone
        ELSE LET c == (CHOOSE e \in js : TRUE).content
             IN  IF c.io = "ok" /\ c.json.ok /\ IsDict(c.json.v) THEN c.json.v
                 ELSE PyNone

\* C26: when the metadata record parses and has one of the fields
\* full_text, content, text, the body of the post is the value of the first
\* of them that is present, empty or not (here for groups without caption
\* file, so that nothing else can give the body).
C26_FirstPresent ==
    (fnIn.kind = "post" /\ fnOut.ran /\ C26_Record # PyNone
        /\ \A e \in fnIn.dir : ~EndsWith(e.name, ".txt")) =>
        LET r == C26_Record
        IN  /\ HasKey(r, "full_text") =>
                  fnOut.post.text_content = r.o["full_text"]
            /\ (~HasKey(r, "full_text") /\ HasKey(r, "content")) =>
                  fnOut.post.text_content = r.o["content"]
            /\ (~HasKey(r, "full_text") /\ ~HasKey(r, "content")
                   /\ HasKey(r, "text")) =>
                  fnOut.post.text_content = r.o["text"]

\* the first caption file of the group, in the order of the listing
C27_Caption ==
    LET i == CHOOSE k \in 1..Len(fnIn.files) :
                /\ EndsWith(fnIn.files[k], ".txt")
                /\ \A j \in 1..(k - 1) : ~EndsWith(fnIn.files[j], ".txt")
    IN  (CHOOSE e \in fnIn.dir : e.name = fnIn.files[i]).content

\* C27: when the metadata file gave a text that is not empty the body is
\* that text, whatever the caption file holds.  When it gave none and the
\* group has a caption file that reads and is not empty, the body is the
\* lines of the caption joined and stripped of the blanks around them,
\* without the first line when that line, stripped, is a date
\* YYYY-MM-DD HH:MM:SS.  Without such a caption file the body is what the
\* metadata file gave.
C27_CaptionFallback ==
    (fnIn.kind = "post" /\ fnOut.ran) =>
        LET given == JsonFields(fnIn.dir, fnIn.files).text
            body == fnOut.post.text_content
            has == \E k \in 1..Len(fnIn.files) : EndsWith(fnIn.files[k], ".txt")
            usable == has /\ C27_Caption.io = "ok" /\ C27_Caption.lines # <<>>
        IN  /\ Truthy(given) => body = given
            /\ (~Truthy(given) /\ ~usable) => body = given
            /\ (~Truthy(given) /\ usable) =>
                  IF C27_Caption.lines[1] \in {DateB, " 2021-02-03 04:05:06 "}
                  THEN body = PyStr(JoinStrip(Tail(C27_Caption.lines)))
                  ELSE body = PyStr(JoinStrip(C27_Caption.lines))

\* a group whose metadata file has a text and whose caption file is dated:
\* the body is the text; and the body of the post is not in the caption
C27_Witness ==
    /\ fnIn.kind = "post" /\ fnOut.ran
    /\ \E e \in fnIn.dir : e.content = TextFile(<<DateB, "hello">>)
    /\ \E e \in fnIn.dir : e.content = JsonFile(PyDict([full_text |-> PyStr("hi")]))
    /\ fnOut.post.text_content = PyStr("hi")

\* the name has an extension of the media set, compared without case
C28_IsMediaName(name) ==
    \E ext \in {".jpg", ".jpeg", ".png", ".gif", ".webp", ".mp4"} :
        EndsWith(Lower(name), ext)

\* C28 as stated: the media list has exactly one entry for each file of the
\* group with a media extension and none for another file; the entry is
\* the handle, a slash and the name of the file; no entry holds a
\* backslash.
C28_Original ==
    (fnIn.kind = "post" /\ fnOut.ran) =>
        LET media == fnOut.media_files
            names == {fnIn.files[k] : k \in 1..Len(fnIn.files)}
        IN  /\ Len(media) = Cardinality({f \in names : C28_IsMediaName(f)})
            /\ \A f \in names :
                  C28_IsMediaName(f) <=>
                     \E k \in 1..Len(media) : media[k] = "alice" \o "/" \o f
            /\ \A k \in 1..Len(media) : ~HasBackslash(media[k])

\* C28 amended: the same, the entry of a file being the handle, a slash and
\* the name of the file with every backslash in it turned into a slash
\* (the name itself when it holds none), in the order of the listing.
C28_MediaList ==
    (fnIn.kind = "post" /\ fnOut.ran) =>
        LET media == fnOut.media_files
            IsM(f) == C28_IsMediaName(f)
            m == SelectSeq(fnIn.files, IsM)
        IN  /\ Len(media) = Len(m)
            /\ \A k \in 1..Len(m) :
                  /\ media[k] = "alice" \o "/" \o ReplaceBackslash(m[k])
                  /\ ~HasBackslash(m[k]) => media[k] = "alice" \o "/" \o m[k]
                  /\ ~HasBackslash(media[k])
            /\ fnOut.post.media_files_json.of.items
                  = [k \in 1..Len(m) |-> "alice" \o "/" \o ReplaceBackslash(m[k])]

\* on a host whose separator is the backslash, a group with a metadata
\* file, an upper-case .JPG and a .pdf gave a media list of one entry
C28_Witness ==
    /\ fnIn.kind = "post" /\ fnOut.ran
    /\ fnIn.sep = "\\"
    /\ {fnIn.files[k] : k \in 1..Len(fnIn.files)} = {"5.json", "5_2.JPG", "5.pdf"}
    /\ fnOut.media_files = <<"alice/5_2.JPG">>

----------------------------------------------------------------------------
(* parse_timestamp on groups whose file names hold more than one run of     *)
(* digits                                                                    *)

\* names with one run or two: an identifier of ten digits before an epoch
\* in range, an epoch below the floor before one in range, eight digits
\* before an epoch in range, an epoch in range alone, and none
EpochNames ==
    { "5000000000_1577836800.jpg", "5_946684799_1577836800.jpg",
      "5_12345678_1577836800.jpg", "5_1577836800.jpg",
      "5_a.jpg", "5.mp4" }

MaxEpochGroup == 3

EpochInputs ==
    {[dir |-> {RegularFile(q[i], MTime(16000, 3), BinaryFile) : i \in DOMAIN q},
      files |-> q] :
        q \in UNION {{r \in [1..n -> EpochNames] :
                         \A i, j \in 1..n : i # j => r[i] # r[j]} :
                     n \in 1..MaxEpochGroup}}

InitEpoch ==
    /\ StoreIdle
    /\ tsIn \in EpochInputs
    /\ tsOut = NotRun
    /\ FnIdle /\ SweepIdle /\ ProcsIdle

SpecEpoch == InitEpoch /\ [][ResolveTimestamp]_vars

\* the values of the runs of 9 to 11 digits, each taken whole, of a name
\* without its extension
C36_Runs(filename) ==
    LET root == Splitext0(filename)
        Whole(i, j) ==
            /\ \A k \in i..j : IsDigit(Char(root, k))
            /\ i = 1 \/ ~IsDigit(Char(root, i - 1))
            /\ j = Len(root) \/ ~IsDigit(Char(root, j + 1))
    IN  {IntOfDigits(SubSeq(root, i, j)) :
            <<i, j>> \in {<<a, b>> \in (1..Len(root)) \X (1..Len(root)) :
                            /\ b - a + 1 >= EpochMinDigits
                            /\ b - a + 1 <= EpochMaxDigits
                            /\ Whole(a, b)}}

\* C36: when neither the metadata file nor the caption file gives a
\* timestamp and some name of the group holds, anywhere before its
\* extension, a run of 9 to 11 digits with a value in the range, the
\* timestamp is the value of such a run and not the modification time,
\* also when an earlier run of the same name is out of the range.
C36_EpochComplete ==
    tsOut.ran =>
        LET inRange == {v \in UNION {C36_Runs(tsIn.files[i]) :
                                        i \in DOMAIN tsIn.files} :
                           EpochInRange(v)}
        IN  (/\ TimestampFromJson(tsIn.dir, tsIn.files) = PyNone
             /\ TimestampFromTxt(tsIn.dir, tsIn.files) = PyNone
             /\ inRange # {})
            => tsOut.value \in {FromTimestamp(v) : v \in inRange}

====
